---- MODULE Spec2Model ----
(***************************************************************************)
(* A model of HdrCreationManager (src/src/HdrWizard/HdrCreationManager.cpp *)
(* and its header): the exposure store m_data, the pending batch           *)
(* m_tmpdata, the derived EV offset, the future watcher that drives the    *)
(* asynchronous load, and the signals each operation emits.                *)
(***************************************************************************)
EXTENDS Integers, Sequences, FiniteSets, TLC

VARIABLES
    m_data,                       \* committed exposure items, in store order
    m_tmpdata,                    \* items of the batch that is not merged yet
    m_evOffset,                   \* the EV offset derived from m_data
    m_isLoadResponseCurve,        \* a response-curve file is still to be read
    m_responseCurveInputFilename, \* the file to read it from
    m_response,                   \* the response curve
    m_weight,                     \* the weight function
    m_fusionOperator,             \* the fusion operator kind
    m_responseCurveOutputFilename,\* where createHdr writes the response curve ("": nowhere)
    m_patches,                    \* the ghost mask, one flag per grid cell
    m_agGoodImageIndex,           \* the reference image of the last computePatches
    m_agMask,                     \* a freehand mask has been set (FALSE: the pointer is NULL)
    futureState,                  \* m_futureWatcher: "idle", "running", "finished"
    futureCanceled,               \* m_futureWatcher.isCanceled()
    futureTodo,                   \* indices of m_tmpdata the watched map has not loaded yet
    loadOrder,                    \* indices of m_tmpdata in the order the watched map loaded them
    orphanEnd,                    \* > 0: a map the watcher has left still runs over m_tmpdata[1..orphanEnd]
    connected,                    \* finished() is connected to loadFilesDone()
    emitted,                      \* the signals emitted by the last operation, in order
    last,                         \* the last operation: its name and path, the containers and
                                  \* the EV offset before it, and what it was called with or
                                  \* handed on (arg)
    crashed,                      \* the process has been brought down by undefined behaviour
    tmPc,                         \* per thread: where it stands in tonemapFrame
    tmKind,                       \* per thread: the kind of the operator it runs
    tmLocked,                     \* the mutexes held, each with the thread holding it
    tmResult,                     \* per thread: how its last tonemapFrame ended
    tmRegistry,                   \* the static map of registry(); {} until first built
    tmHeap,                       \* the operators created so far, in order of creation
    tmGet,                        \* the last getTonemapOperator: its argument and outcome
    cpArgs,                       \* a region copyArray call: the sizes of from and to, the corners
    cpResult,                     \* what the call did (outcome "none": not made yet)
    frChannels,                   \* Frame::m_channels: the channels of a frame, in order
    frNextId,                     \* the number of channels allocated so far
    frLive,                       \* the names created on the frame and not removed since
    frLast                        \* the last operation on the frame and what it returned

vars == <<m_data, m_tmpdata, m_evOffset, m_isLoadResponseCurve,
          m_responseCurveInputFilename, m_response, m_weight, m_fusionOperator,
          m_responseCurveOutputFilename, m_patches, m_agGoodImageIndex, m_agMask,
          futureState, futureCanceled, futureTodo, loadOrder, orphanEnd, connected,
          emitted, last, crashed,
          tmPc, tmKind, tmLocked, tmResult, tmRegistry, tmHeap, tmGet,
          cpArgs, cpResult, frChannels, frNextId, frLive, frLast>>

storeVars  == <<m_data, m_tmpdata, m_evOffset>>
configVars == <<m_isLoadResponseCurve, m_responseCurveInputFilename,
                m_response, m_weight, m_fusionOperator,
                m_responseCurveOutputFilename>>
futureVars == <<futureState, futureCanceled, futureTodo, loadOrder, orphanEnd, connected>>
agVars     == <<m_patches, m_agGoodImageIndex, m_agMask>>
tmVars     == <<tmPc, tmKind, tmLocked, tmResult>>
regVars    == <<tmRegistry, tmHeap, tmGet>>
cpVars     == <<cpArgs, cpResult>>
frVars     == <<frChannels, frNextId, frLive, frLast>>
pfsVars    == <<tmVars, regVars, cpVars, frVars>>

----------------------------------------------------------------------------
(* Bounds of the model *)

MaxStore == 3       \* items in m_data and m_tmpdata together
MaxBatch == 2       \* paths in one loadFiles call
MaxPending == 2     \* items in m_tmpdata
agGridSize == 2     \* cells of the ghost grid along each axis (scaled down)
MaxThreshold == 2   \* thresholds handed to computePatches: 0..MaxThreshold
MaxThreads == 2     \* threads that call tonemapFrame
MaxOperators == 3   \* operators created by getTonemapOperator
MaxDim == 2         \* columns and rows of the arrays handed to copyArray
MaxChannelIds == 4  \* channels allocated on one frame

----------------------------------------------------------------------------
(* The files on disk: what the loader finds for each path *)

Files == {"a", "b", "c", "d"}

\* "d" is a broken file: LoadFile() either throws on it or returns with the
\* item left invalid
FileMayThrow(f) == f = "d"
FileValid(f)  == f \in {"a", "b", "c"}
FileHasEV(f)  == f \in {"a", "b"}
FileEV(f)     == CASE f = "a" -> 2 [] f = "b" -> -1 [] OTHER -> 0
FileWidth(f)  == IF FileValid(f) THEN 1 ELSE 0
FileHeight(f) == CASE f = "c" -> 2 [] f \in {"a", "b"} -> 1 [] OTHER -> 0
FileBps       == 8
GarbageBps    == 0                    \* what a read of a missing item yields

GoodCurveFile == "good.m"
BadCurveFile  == "bad.m"

\* HdrCreationItem(filename): an item that has not been loaded
HdrCreationItem(f) ==
    [name |-> f, valid |-> FALSE, hasEV |-> FALSE, ev |-> 0,
     width |-> 0, height |-> 0, bps |-> 0]

\* LoadFile()(item): the item after a load that did not throw
LoadFile(item) ==
    [name |-> item.name, valid |-> FileValid(item.name),
     hasEV |-> FileValid(item.name) /\ FileHasEV(item.name),
     ev |-> IF FileValid(item.name) THEN FileEV(item.name) ELSE 0,
     width |-> FileWidth(item.name), height |-> FileHeight(item.name),
     bps |-> IF FileValid(item.name) THEN FileBps ELSE 0]

----------------------------------------------------------------------------
(* predef_confs and the configurations the wizard may set *)

Configs ==
    { [weightFunction |-> "WEIGHT_TRIANGULAR", responseCurve |-> "RESPONSE_LINEAR",
       fusionOperator |-> "DEBEVEC", inputResponseCurveFilename |-> ""],
      [weightFunction |-> "WEIGHT_TRIANGULAR", responseCurve |-> "RESPONSE_GAMMA",
       fusionOperator |-> "DEBEVEC", inputResponseCurveFilename |-> ""],
      [weightFunction |-> "WEIGHT_TRIANGULAR", responseCurve |-> "RESPONSE_LINEAR",
       fusionOperator |-> "DEBEVEC", inputResponseCurveFilename |-> GoodCurveFile],
      [weightFunction |-> "WEIGHT_TRIANGULAR", responseCurve |-> "RESPONSE_LINEAR",
       fusionOperator |-> "DEBEVEC", inputResponseCurveFilename |-> BadCurveFile] }

----------------------------------------------------------------------------
(* Helpers of the store *)

checkFileName(item, str) == item.name = str

Max(x, y) == IF x >= y THEN x ELSE y
SetMax(S) == CHOOSE x \in S : \A y \in S : y <= x

\* the loop of loadFiles: one pending item per path that is not found in data
RECURSIVE Schedule(_, _, _)
Schedule(data, tmp, filenames) ==
    IF filenames = <<>> THEN tmp
    ELSE LET filename == Head(filenames)
             found == \E i \in DOMAIN data : checkFileName(data[i], filename)
         IN  Schedule(data,
                      IF found THEN tmp ELSE Append(tmp, HdrCreationItem(filename)),
                      Tail(filenames))

isValid(item) == item.valid

RECURSIVE Reverse(_)
Reverse(q) == IF q = <<>> THEN <<>> ELSE Append(Reverse(Tail(q)), Head(q))

\* the merge loop of loadFilesDone
MergeAll(data, tmp) == data \o tmp
MergeValidReversed(data, tmp) == data \o Reverse(SelectSeq(tmp, isValid))
MergeValid(data, tmp) == data \o SelectSeq(tmp, isValid)

\* std::sort on a vector of EVs
RECURSIVE InsertSorted(_, _)
InsertSorted(s, x) ==
    IF s = <<>> THEN <<x>>
    ELSE IF x <= Head(s) THEN <<x>> \o s
    ELSE <<Head(s)>> \o InsertSorted(Tail(s), x)

RECURSIVE SortAsc(_)
SortAsc(s) == IF s = <<>> THEN <<>> ELSE InsertSorted(SortAsc(Tail(s)), Head(s))

RECURSIVE KnownEVs(_)
KnownEVs(data) ==
    IF data = <<>> THEN <<>>
    ELSE (IF Head(data).hasEV THEN <<Head(data).ev>> ELSE <<>>) \o KnownEVs(Tail(data))

\* the index refreshEVOffset reads in the sorted vector (1-based)
MedianIndex(n) == (n + 1) \div 2 - 1 + 1

refreshEVOffset(data) ==
    IF Len(data) <= 0 THEN 0
    ELSE LET evs == KnownEVs(data) IN
         IF Len(evs) <= 0 THEN 0
         ELSE IF Len(evs) = 1 THEN evs[1]
         ELSE SortAsc(evs)[MedianIndex(Len(evs))]

\* framesHaveSameSize on a store that has a first item
SameSizeWidthOnly(data) ==
    \A i \in 2..Len(data) : data[i].width = data[1].width
framesHaveSameSize(data) ==
    \A i \in 2..Len(data) :
        ~(data[i].width # data[1].width \/ data[i].height # data[1].height)

\* what the call of framesHaveSameSize in loadFilesDone yields. On an empty
\* store it reads m_data[0] and walks from begin() + 1, which is past end():
\* the behaviour is undefined, and the build either reads garbage until it
\* finds a difference (false) or faults.
SameSizeOutcomes(data) ==
    IF Len(data) = 0 THEN {"false", "crash"}
    ELSE IF framesHaveSameSize(data) THEN {"true"} ELSE {"false"}

\* the record kept of the last operation
Last(op) == [op |-> op, data |-> <<>>, tmp |-> <<>>, evOffset |-> 0, arg |-> <<>>]
LastOn(op, data, tmp, ev) ==
    [op |-> op, data |-> data, tmp |-> tmp, evOffset |-> ev, arg |-> <<>>]
LastArg(op, data, tmp, ev, arg) ==
    [op |-> op, data |-> data, tmp |-> tmp, evOffset |-> ev, arg |-> arg]

\* the ghost grid
Cells == (0..(agGridSize - 1)) \X (0..(agGridSize - 1))
NoPatches == [c \in Cells |-> FALSE]

\* m_agGoodImageIndex is not initialised by the constructor: until
\* computePatches has run its value is indeterminate
IndeterminateIndex == -1

----------------------------------------------------------------------------
\* the tonemapping threads: none is inside tonemapFrame, no mutex is held
Threads == 1..MaxThreads
InitTonemap ==
    /\ tmPc = [t \in Threads |-> "idle"]
    /\ tmKind = [t \in Threads |-> "none"]
    /\ tmLocked = {}
    /\ tmResult = [t \in Threads |-> "none"]

\* the operator registry: the function-local static is not built before the
\* first call of registry(), and nothing has been created
InitRegistry ==
    /\ tmRegistry = {}
    /\ tmHeap = <<>>
    /\ tmGet = [tmo |-> "none", outcome |-> "none"]

\* no region copy has been asked for
NoCopy == [IN_W |-> 0, IN_H |-> 0, OUT_W |-> 0, OUT_H |-> 0,
           x_ul |-> 0, y_ul |-> 0, x_br |-> 0, y_br |-> 0]
NoResult == [asserted |-> FALSE, outcome |-> "none", to |-> <<>>]

\* Frame(width, height): a frame without channels
InitFrame ==
    /\ frChannels = <<>>
    /\ frNextId = 0
    /\ frLive = {}
    /\ frLast = [op |-> "none", name |-> "", result |-> <<>>, before |-> <<>>]

\* the manager after its constructor
InitManager ==
    /\ m_data = <<>>
    /\ m_tmpdata = <<>>
    /\ m_evOffset = 0
    /\ m_isLoadResponseCurve = FALSE
    /\ m_responseCurveInputFilename = ""
    /\ m_response = [type |-> "RESPONSE_LINEAR", bps |-> FileBps, file |-> ""]
    /\ m_weight = [type |-> "WEIGHT_TRIANGULAR", bps |-> FileBps]
    /\ m_fusionOperator = "DEBEVEC"
    /\ m_responseCurveOutputFilename = ""
    /\ m_patches = NoPatches
    /\ m_agGoodImageIndex = IndeterminateIndex
    /\ m_agMask = FALSE
    /\ futureState = "idle"
    /\ futureCanceled = FALSE
    /\ futureTodo = {}
    /\ loadOrder = <<>>
    /\ orphanEnd = 0
    /\ connected = FALSE
    /\ emitted = <<>>
    /\ last = Last("init")
    /\ crashed = FALSE

Init ==
    /\ InitManager
    /\ InitTonemap
    /\ InitRegistry
    /\ cpArgs = NoCopy
    /\ cpResult = NoResult
    /\ InitFrame

\* undefined behaviour that ends the process: nothing of the manager is left
Crash ==
    /\ crashed' = TRUE
    /\ last' = Last("crash")
    /\ emitted' = <<>>
    /\ m_data' = <<>>
    /\ m_tmpdata' = <<>>
    /\ m_evOffset' = 0
    /\ futureState' = "idle"
    /\ futureCanceled' = FALSE
    /\ futureTodo' = {}
    /\ loadOrder' = <<>>
    /\ orphanEnd' = 0
    /\ connected' = FALSE
    /\ m_patches' = NoPatches
    /\ m_agGoodImageIndex' = IndeterminateIndex
    /\ m_agMask' = FALSE
    /\ UNCHANGED pfsVars
    /\ UNCHANGED configVars

\* some map (watched or not) still has loads to run
MapActive == futureState = "running" \/ orphanEnd > 0

----------------------------------------------------------------------------
(* loadFiles(filenames) *)

\* a call made while a map is still running appends to the container the
\* workers iterate and starts a further map over it: undefined behaviour,
\* which either brings the process down or goes unnoticed
LoadFiles(filenames) ==
    LET scheduled == Schedule(m_data, m_tmpdata, filenames) IN
    /\ ~crashed
    /\ Len(scheduled) <= MaxPending
    /\ Len(m_data) + Len(scheduled) <= MaxStore
    /\ \/ /\ MapActive
          /\ Crash
       \/ /\ m_tmpdata' = scheduled
          /\ connected' = TRUE
          \* setFuture: the watcher leaves the earlier future, which keeps running
          /\ orphanEnd' = IF futureState = "running"
                          THEN Max(orphanEnd, SetMax(futureTodo)) ELSE orphanEnd
          /\ futureTodo' = 1..Len(scheduled)
          /\ loadOrder' = <<>>
          /\ futureState' = IF Len(scheduled) = 0 THEN "finished" ELSE "running"
          /\ futureCanceled' = FALSE
          /\ emitted' = <<>>
          /\ last' = Last(IF MapActive THEN "loadFiles_busy" ELSE "loadFiles")
          /\ UNCHANGED <<m_data, m_evOffset, configVars, crashed, agVars, pfsVars>>

----------------------------------------------------------------------------
(* The worker threads of QtConcurrent::map *)

\* one load of the watched map; order is what loadOrder becomes when the
\* load completes
WorkerStep(i, order) ==
    /\ ~crashed
    /\ futureState = "running"
    /\ i \in futureTodo
    /\ \/ /\ i \in DOMAIN m_tmpdata
          /\ m_tmpdata' = [m_tmpdata EXCEPT ![i] = LoadFile(@)]
          /\ futureTodo' = futureTodo \ {i}
          /\ loadOrder' = order
          /\ futureState' = IF futureTodo' = {} THEN "finished" ELSE "running"
          /\ last' = Last("load")
          /\ emitted' = <<>>
          /\ UNCHANGED <<m_data, m_evOffset, configVars, futureCanceled,
                         orphanEnd, connected, crashed, agVars, pfsVars>>
       \/ \* LoadFile() throws: the exception cancels the future
          /\ i \in DOMAIN m_tmpdata
          /\ FileMayThrow(m_tmpdata[i].name)
          /\ futureCanceled' = TRUE
          /\ futureTodo' = {}
          /\ futureState' = "finished"
          /\ last' = Last("load")
          /\ emitted' = <<>>
          /\ UNCHANGED <<storeVars, configVars, loadOrder, orphanEnd, connected, crashed, agVars, pfsVars>>
       \/ \* the item was destroyed under the worker (clearFiles): the write is lost
          /\ i \notin DOMAIN m_tmpdata
          /\ futureTodo' = futureTodo \ {i}
          /\ futureState' = IF futureTodo' = {} THEN "finished" ELSE "running"
          /\ last' = Last("load")
          /\ emitted' = <<>>
          /\ UNCHANGED <<storeVars, configVars, futureCanceled, loadOrder,
                         orphanEnd, connected, crashed, agVars, pfsVars>>
       \/ \* ... or it brings the process down
          /\ i \notin DOMAIN m_tmpdata
          /\ Crash

WorkerLoad(i) == WorkerStep(i, loadOrder)

\* the same load, with its completion recorded in loadOrder
WorkerLoadRecorded(i) == WorkerStep(i, Append(loadOrder, i))

\* one load of a map the watcher has left: its iterators may dangle, so the
\* write lands in the item that now lives at that place, is lost, or brings
\* the process down
OrphanLoad(i) ==
    /\ ~crashed
    /\ i \in 1..orphanEnd
    /\ \/ /\ i \in DOMAIN m_tmpdata
          /\ m_tmpdata' = [m_tmpdata EXCEPT ![i] = LoadFile(@)]
          /\ last' = Last("orphan")
          /\ emitted' = <<>>
          /\ UNCHANGED <<m_data, m_evOffset, configVars, futureVars, crashed, agVars, pfsVars>>
       \/ Crash

\* the unwatched map has run all its loads
OrphanFinished ==
    /\ ~crashed
    /\ orphanEnd > 0
    /\ orphanEnd' = 0
    /\ last' = Last("orphan")
    /\ emitted' = <<>>
    /\ UNCHANGED <<storeVars, configVars, futureState, futureCanceled,
                   futureTodo, loadOrder, connected, crashed, agVars, pfsVars>>

\* the progressCancel signal, connected to m_futureWatcher.cancel()
ProgressCancel ==
    /\ ~crashed
    /\ futureState \in {"running", "finished"}
    /\ futureCanceled' = TRUE
    /\ futureTodo' = {}
    /\ futureState' = "finished"
    /\ last' = Last(IF futureState = "running" THEN "progressCancel"
                     ELSE "progressCancel_late")
    /\ emitted' = <<>>
    /\ UNCHANGED <<storeVars, configVars, loadOrder, orphanEnd, connected,
                   crashed, agVars, pfsVars>>

----------------------------------------------------------------------------
(* loadFilesDone(), the slot run when the watched future has finished *)

\* the bit depth loadFilesDone reads from m_tmpdata[0]; the read is undefined
\* when the batch is empty
BitDepthOutcomes(tmp) ==
    IF Len(tmp) = 0 THEN {GarbageBps, -1} ELSE {tmp[1].bps}

\* the try block that reads the response curve; bps = -1 stands for a crash
ReadResponseCurve(bps) ==
    IF ~m_isLoadResponseCurve
    THEN [response |-> m_response, weight |-> m_weight,
          flag |-> m_isLoadResponseCurve, error |-> FALSE]
    ELSE IF m_responseCurveInputFilename = BadCurveFile
    THEN \* readFromFile throws std::runtime_error: setLoadResponseCurve(false) is skipped
         [response |-> [m_response EXCEPT !.bps = bps],
          weight |-> [m_weight EXCEPT !.bps = bps],
          flag |-> TRUE, error |-> TRUE]
    ELSE [response |-> [m_response EXCEPT !.bps = bps,
                                          !.file = m_responseCurveInputFilename],
          weight |-> [m_weight EXCEPT !.bps = bps],
          flag |-> FALSE, error |-> FALSE]

\* the cancelled path: the batch is dropped and an error reported
LoadFilesDoneCancelledKeepsBatch ==
    /\ emitted' = <<"errorWhileLoading">>
    /\ connected' = FALSE
    /\ futureState' = "idle"
    /\ loadOrder' = <<>>
    /\ last' = LastArg("loadFilesDone_cancelled", m_data, m_tmpdata, m_evOffset,
                       loadOrder)
    /\ UNCHANGED <<storeVars, configVars, futureCanceled,
                   futureTodo, orphanEnd, crashed, agVars, pfsVars>>
LoadFilesDoneCancelled ==
    /\ emitted' = <<"errorWhileLoading">>
    /\ connected' = FALSE
    /\ m_tmpdata' = <<>>
    /\ futureState' = "idle"
    /\ loadOrder' = <<>>
    /\ last' = LastArg("loadFilesDone_cancelled", m_data, m_tmpdata, m_evOffset,
                       loadOrder)
    /\ UNCHANGED <<m_data, m_evOffset, configVars, futureCanceled,
                   futureTodo, orphanEnd, crashed, agVars, pfsVars>>

\* the store after the merge loop: every valid item of the batch is appended
MergedStore == MergeValid(m_data, m_tmpdata)

\* the rest of the slot: response curve, merge, EV offset, size check
LoadFilesDoneMerge(bps, same) ==
    LET rc == ReadResponseCurve(bps) IN
    /\ m_response' = rc.response
    /\ m_weight' = rc.weight
    /\ m_isLoadResponseCurve' = rc.flag
    /\ connected' = FALSE
    /\ m_tmpdata' = <<>>
    /\ m_evOffset' = refreshEVOffset(MergedStore)
    /\ m_data' = IF same = "true" THEN MergedStore ELSE <<>>
    /\ emitted' = (IF rc.error THEN <<"errorWhileLoading">> ELSE <<>>)
                  \o (IF same = "true" THEN <<"finishedLoadingFiles">>
                      ELSE <<"errorWhileLoading">>)
    /\ futureState' = "idle"
    /\ loadOrder' = <<>>
    /\ last' = LastArg(IF same = "true" THEN "loadFilesDone_ok" ELSE "loadFilesDone_mismatch",
                       m_data, m_tmpdata, m_evOffset, loadOrder)
    /\ UNCHANGED <<m_responseCurveInputFilename, m_fusionOperator,
                   m_responseCurveOutputFilename,
                   futureCanceled, futureTodo, orphanEnd, crashed, agVars, pfsVars>>

LoadFilesDone ==
    /\ ~crashed
    /\ futureState = "finished"
    /\ connected
    /\ IF futureCanceled
       THEN LoadFilesDoneCancelled
       ELSE \E bps \in (IF m_isLoadResponseCurve THEN BitDepthOutcomes(m_tmpdata)
                        ELSE {FileBps}),
               same \in SameSizeOutcomes(MergedStore) :
                IF bps = -1 \/ same = "crash" THEN Crash
                ELSE LoadFilesDoneMerge(bps, same)

----------------------------------------------------------------------------
(* removeFile, clearFiles, reset, setConfig *)

RemoveAtNext(s, k) == SubSeq(s, 1, k) \o SubSeq(s, k + 2, Len(s))
RemoveAt(s, k) == SubSeq(s, 1, k - 1) \o SubSeq(s, k + 1, Len(s))

\* removeFile(idx), idx counted from 0
RemoveFile(idx) ==
    /\ ~crashed
    /\ idx >= 0
    /\ idx < Len(m_data)
    /\ m_data' = RemoveAt(m_data, idx + 1)
    /\ m_evOffset' = refreshEVOffset(m_data')
    /\ emitted' = <<>>
    /\ last' = LastArg("removeFile", m_data, <<>>, m_evOffset, idx)
    /\ UNCHANGED <<m_tmpdata, configVars, futureVars, crashed, agVars, pfsVars>>

\* what erase(begin() + idx) leaves of the store when idx is out of range and
\* the process survives: the elements behind the position are moved down by
\* one (none when the position is at or past end()) and the size drops by one
EraseOutOfRange(data, idx) ==
    IF idx < 0 THEN Tail(data) ELSE SubSeq(data, 1, Len(data) - 1)

\* removeFile(idx) with idx out of range. Q_ASSERT aborts a debug build; a
\* release build compiles it out and erases out of range, which is undefined:
\* the process is brought down or the store loses an item
RemoveFileOutOfRange(idx) ==
    /\ ~crashed
    /\ idx < 0 \/ idx >= Len(m_data)
    /\ \/ Crash
       \/ /\ m_data # <<>>
          /\ m_data' = EraseOutOfRange(m_data, idx)
          /\ m_evOffset' = refreshEVOffset(m_data')
          /\ emitted' = <<>>
          /\ last' = LastArg("removeFile_outOfRange", m_data, <<>>, m_evOffset, idx)
          /\ UNCHANGED <<m_tmpdata, configVars, futureVars, crashed, agVars, pfsVars>>

ClearFiles ==
    /\ ~crashed
    /\ m_data' = <<>>
    /\ m_tmpdata' = <<>>
    /\ emitted' = <<>>
    /\ last' = Last("clearFiles")
    /\ UNCHANGED <<m_evOffset, configVars, futureVars, crashed, agVars, pfsVars>>

\* reset(): aborts a running load, then empties both containers
ResetWithoutAbortSignal ==
    /\ ~crashed
    /\ IF futureState = "running"
       THEN /\ futureCanceled' = TRUE
            /\ futureTodo' = {}
            /\ last' = LastOn("reset_aborted", m_data, m_tmpdata, m_evOffset)
       ELSE /\ last' = Last("reset")
            /\ UNCHANGED <<futureCanceled, futureTodo>>
    /\ emitted' = <<>>
    /\ futureState' = "idle"
    /\ loadOrder' = <<>>
    /\ connected' = FALSE
    /\ m_data' = <<>>
    /\ m_tmpdata' = <<>>
    /\ UNCHANGED <<m_evOffset, configVars, orphanEnd, crashed, agVars, pfsVars>>
Reset ==
    /\ ~crashed
    /\ IF futureState = "running"
       THEN /\ futureCanceled' = TRUE
            /\ futureTodo' = {}
            /\ emitted' = <<"loadFilesAborted">>
            /\ last' = LastOn("reset_aborted", m_data, m_tmpdata, m_evOffset)
       ELSE /\ emitted' = <<>>
            /\ last' = Last("reset")
            /\ UNCHANGED <<futureCanceled, futureTodo>>
    /\ futureState' = "idle"
    /\ loadOrder' = <<>>
    /\ connected' = FALSE
    /\ m_data' = <<>>
    /\ m_tmpdata' = <<>>
    /\ UNCHANGED <<m_evOffset, configVars, orphanEnd, crashed, agVars, pfsVars>>

SetConfig(c) ==
    /\ ~crashed
    /\ IF c.inputResponseCurveFilename # ""
       THEN /\ m_isLoadResponseCurve' = TRUE
            /\ m_responseCurveInputFilename' = c.inputResponseCurveFilename
            /\ m_response' = m_response
       ELSE /\ m_response' = [m_response EXCEPT !.type = c.responseCurve]
            /\ UNCHANGED <<m_isLoadResponseCurve, m_responseCurveInputFilename>>
    /\ m_weight' = [m_weight EXCEPT !.type = c.weightFunction]
    /\ m_fusionOperator' = c.fusionOperator
    /\ UNCHANGED m_responseCurveOutputFilename
    /\ emitted' = <<>>
    /\ last' = Last("setConfig")
    /\ UNCHANGED <<storeVars, futureVars, crashed, agVars, pfsVars>>

----------------------------------------------------------------------------
(* createHdr and the operations that prepare it *)

OutputCurveFile == "out.m"

\* setResponseCurveOutputFile(filename)
SetResponseCurveOutputFile(filename) ==
    /\ ~crashed
    /\ m_responseCurveOutputFilename' = filename
    /\ emitted' = <<>>
    /\ last' = Last("setResponseCurveOutputFile")
    /\ UNCHANGED <<storeVars, m_isLoadResponseCurve, m_responseCurveInputFilename,
                   m_response, m_weight, m_fusionOperator, futureVars, crashed, agVars, pfsVars>>

\* FrameEnhanced(frame, scale, bps); the scale 2^exp is kept as its exponent
FrameEnhanced(item, exp, bps) ==
    [name |-> item.name, width |-> item.width, height |-> item.height,
     exp |-> exp, bps |-> bps]

\* the loop of createHdr that collects the frames to fuse
FusionFramesButFirst(data, evOffset, bps) ==
    [idx \in 1..(Len(data) - 1) |->
        FrameEnhanced(data[idx + 1], data[idx + 1].ev - evOffset, bps)]
FusionFrames(data, evOffset, bps) ==
    [idx \in 1..Len(data) |-> FrameEnhanced(data[idx], data[idx].ev - evOffset, bps)]

\* IFusionOperator::computeFusion: the radiance frame has the size of the
\* frames it is given, and is made with the curve and the weights it is given
computeFusion(response, weight, frames) ==
    [width  |-> IF frames = <<>> THEN 0 ELSE frames[1].width,
     height |-> IF frames = <<>> THEN 0 ELSE frames[1].height,
     exposures |-> Len(frames), response |-> response, weight |-> weight]

\* what createHdr does besides returning the frame, in order
CurveEffectsAlways(outputFilename) == <<"computeFusion", "writeToFile">>
CurveEffects(outputFilename) ==
    <<"computeFusion">> \o (IF outputFilename # "" THEN <<"writeToFile">> ELSE <<>>)

\* createHdr(); it reads m_data[0] first, which is undefined on an empty store
CreateHdr ==
    /\ ~crashed
    /\ \E bps \in BitDepthOutcomes(m_data) :
        IF bps = -1 THEN Crash
        ELSE LET frames == FusionFrames(m_data, m_evOffset, bps)
                 outputFrame == computeFusion(m_response, m_weight, frames)
             IN  /\ last' = LastArg("createHdr", m_data, m_tmpdata, m_evOffset,
                                    [frames |-> frames,
                                     operator |-> m_fusionOperator,
                                     outputFrame |-> outputFrame,
                                     effects |-> CurveEffects(m_responseCurveOutputFilename),
                                     patches |-> m_patches,
                                     index |-> m_agGoodImageIndex])
                 /\ emitted' = <<>>
                 /\ UNCHANGED <<storeVars, configVars, futureVars, crashed, agVars, pfsVars>>

\* shiftItem(item, dx, dy) swaps in a shifted frame and image of the same
\* size; the pixels are not part of the model
shiftItem(item, dx, dy) == item

HvOffsets == {<<0, 0>>, <<1, 0>>}

\* applyShiftsToItems(hvOffsets), one offset per item of the store
ApplyShiftsToItems(hvOffsets) ==
    /\ ~crashed
    /\ Len(hvOffsets) = Len(m_data)
    /\ m_data' = [i \in 1..Len(m_data) |->
                    IF hvOffsets[i][1] = hvOffsets[i][2] /\ hvOffsets[i][1] = 0
                    THEN m_data[i]
                    ELSE shiftItem(m_data[i], hvOffsets[i][1], hvOffsets[i][2])]
    /\ emitted' = <<>>
    /\ last' = LastOn("applyShiftsToItems", m_data, <<>>, m_evOffset)
    /\ UNCHANGED <<m_tmpdata, m_evOffset, configVars, futureVars, crashed, agVars, pfsVars>>

\* the crop rectangles, by the size they cut out
CropRects == {[width |-> 1, height |-> 1], [width |-> 1, height |-> 2]}

\* the loop of cropItems: every item gets the frame cut to the rectangle
CropAllButFirst(data, ca) ==
    [idx \in 1..Len(data) |->
        IF idx = 1 THEN data[idx]
        ELSE [data[idx] EXCEPT !.width = ca.width, !.height = ca.height]]
CropAll(data, ca) ==
    [idx \in 1..Len(data) |->
        [data[idx] EXCEPT !.width = ca.width, !.height = ca.height]]

\* cropItems(ca), with a rectangle that lies inside the frames
CropItems(ca) ==
    /\ ~crashed
    /\ \A idx \in 1..Len(m_data) :
            ca.width <= m_data[idx].width /\ ca.height <= m_data[idx].height
    /\ m_data' = CropAll(m_data, ca)
    /\ emitted' = <<>>
    /\ last' = LastArg("cropItems", m_data, <<>>, m_evOffset, ca)
    /\ UNCHANGED <<m_tmpdata, m_evOffset, configVars, futureVars, crashed, agVars, pfsVars>>

----------------------------------------------------------------------------
(* computePatches and setPatches *)

Abs(x) == IF x < 0 THEN 0 - x ELSE x

\* what the images hold, as far as ghost detection looks at it: the hue energy
\* of a file, the log2 of its average luminance, and its content in a cell
FileHue(f)          == CASE f = "a" -> 3 [] f = "b" -> 1 [] OTHER -> 2
FileLogLuminance(f) == CASE f = "a" -> 1 [] OTHER -> 0
FileCell(f, i, j) ==
    IF <<i, j>> \notin Cells THEN 0
    ELSE CASE f = "a" -> i + 2 * j + 1
           [] f = "b" -> 2 * i
           [] OTHER   -> 1

\* hueSquaredMean(m_data, HE): one energy per item
hueSquaredMean(data) == [h \in 1..Len(data) |-> FileHue(data[h].name)]

\* findIndex(HE, size): the first index (from 0) of the smallest energy
findIndex(HE) ==
    (CHOOSE h \in DOMAIN HE :
        /\ \A g \in DOMAIN HE : HE[h] <= HE[g]
        /\ \A g \in DOMAIN HE : HE[g] = HE[h] => h <= g) - 1

\* sdv(item1, item2, deltaEV, dx, dy, sR, sG, sB): the baseline deviation of
\* the pair, one value for the three channels
sdv(item1, item2, deltaEV, dx, dy) == 1 + Abs(deltaEV)

\* comparePatches(item1, item2, i, j, ..., threshold, s, deltaEV, dx, dy): the
\* exposure- and offset-compensated deviation of the cell exceeds threshold
\* times the baseline
comparePatches(item1, item2, i, j, threshold, s, deltaEV, dx, dy) ==
    Abs(FileCell(item1.name, i, j) + deltaEV - FileCell(item2.name, i + dx, j + dy))
        > threshold * s

\* the loop that clears m_patches
KeptPatches(p) == p
ClearedPatches(p) == [c \in Cells |-> FALSE]

\* the body of the cell loop: a cell that differs is flagged and stays flagged
FlagCellInverted(old, differs) == IF differs THEN old ELSE TRUE
FlagCellOverwrite(old, differs) == differs
FlagCell(old, differs) == IF differs THEN TRUE ELSE old

\* if (h == m_agGoodImageIndex) continue;
ReferenceSkipped(h, good) == h = good

\* the images the loop compares with the reference
ComparedImages(data, good) ==
    {h \in 0..(Len(data) - 1) : ~ReferenceSkipped(h, good)}

\* the loop over the images h (from 0) other than the reference
RECURSIVE FlagPatches(_, _, _, _, _, _)
FlagPatches(p, data, good, h, threshold, HV_offset) ==
    IF h >= Len(data) THEN p
    ELSE IF ReferenceSkipped(h, good)
         THEN FlagPatches(p, data, good, h + 1, threshold, HV_offset)
    ELSE LET deltaEV == FileLogLuminance(data[good + 1].name)
                        - FileLogLuminance(data[h + 1].name)
             dx == HV_offset[good + 1][1] - HV_offset[h + 1][1]
             dy == HV_offset[good + 1][2] - HV_offset[h + 1][2]
             s  == sdv(data[good + 1], data[h + 1], deltaEV, dx, dy)
         IN  FlagPatches(
                [c \in Cells |->
                    FlagCell(p[c], comparePatches(data[good + 1], data[h + 1],
                                                  c[1], c[2], threshold, s,
                                                  deltaEV, dx, dy))],
                data, good, h + 1, threshold, HV_offset)

\* the count of flagged cells and the percentage reported (whole percent)
PatchPercentPerRow(p) == (Cardinality({c \in Cells : p[c]}) * 100) \div agGridSize
PatchCount(p) == Cardinality({c \in Cells : p[c]})
PatchPercent(p) == (PatchCount(p) * 100) \div (agGridSize * agGridSize)

Thresholds == 0..MaxThreshold

\* computePatches(threshold, patches, percent, HV_offset). It reads m_data[0]
\* first, which is undefined on an empty store; assert(size >= 2) aborts a
\* debug build and is compiled out of a release build
ComputePatches(threshold, HV_offset) ==
    /\ ~crashed
    /\ Len(HV_offset) = Len(m_data)
    /\ \/ /\ Len(m_data) < 2
          /\ Crash
       \/ /\ Len(m_data) >= 1
          /\ LET good == findIndex(hueSquaredMean(m_data))
                 p == FlagPatches(ClearedPatches(m_patches), m_data, good, 0,
                                  threshold, HV_offset)
             IN  /\ m_agGoodImageIndex' = good
                 /\ m_patches' = p
                 /\ last' = LastArg("computePatches", m_data, <<>>, m_evOffset,
                                    [threshold |-> threshold,
                                     offsets |-> HV_offset,
                                     patches |-> p,
                                     percent |-> PatchPercent(p),
                                     index |-> good,
                                     compared |-> ComparedImages(m_data, good),
                                     before |-> m_patches])
          /\ emitted' = <<>>
          /\ UNCHANGED <<storeVars, configVars, futureVars, crashed, m_agMask, pfsVars>>
       \/ \* an empty store read as if it had items: nothing is compared
          /\ Len(m_data) = 0
          /\ m_agGoodImageIndex' = IndeterminateIndex
          /\ m_patches' = ClearedPatches(m_patches)
          /\ UNCHANGED m_agMask
          /\ last' = LastArg("computePatches", m_data, <<>>, m_evOffset,
                             [threshold |-> threshold,
                              offsets |-> HV_offset,
                              patches |-> ClearedPatches(m_patches),
                              percent |-> 0,
                              index |-> IndeterminateIndex,
                              compared |-> {},
                              before |-> m_patches])
          /\ emitted' = <<>>
          /\ UNCHANGED <<storeVars, configVars, futureVars, crashed, pfsVars>>

\* the masks a caller hands to setPatches
PatchMasks ==
    {[c \in Cells |-> FALSE], [c \in Cells |-> TRUE], [c \in Cells |-> c = <<0, 0>>]}

\* setPatches(patches)
SetPatches(patches) ==
    /\ ~crashed
    /\ m_patches' = patches
    /\ emitted' = <<>>
    /\ last' = Last("setPatches")
    /\ UNCHANGED <<storeVars, configVars, futureVars, crashed, m_agGoodImageIndex,
                   m_agMask, pfsVars>>

----------------------------------------------------------------------------
(* doAntiGhosting *)

\* setAntiGhostingMask(mask)
SetAntiGhostingMask ==
    /\ ~crashed
    /\ m_agMask' = TRUE
    /\ emitted' = <<>>
    /\ last' = Last("setAntiGhostingMask")
    /\ UNCHANGED <<storeVars, configVars, futureVars, crashed, m_patches,
                   m_agGoodImageIndex, pfsVars>>

\* the arrays and channels of doAntiGhosting: a name and the colour channel
\* it is declared for ("c" stands for Rc, Gc, Bc; "U" for Urc, Ugc, Ubc)
Buf(name, ch) == <<name, ch>>
Uninitialised == <<"uninitialised", "-">>   \* Array2D(cols, rows) allocates, no more
Cleared       == <<"cleared", "-">>         \* after reset() or delete

\* one statement of doAntiGhosting: the buffers it reads, writes and resets;
\* n is the value of setValue(n) or the number of the canceled() poll
Stage(op, ch, reads, writes) ==
    [op |-> op, ch |-> ch, reads |-> reads, writes |-> writes, clears |-> {}, n |-> 0]
Clear(ch, bufs) ==
    [op |-> "reset", ch |-> ch, reads |-> {}, writes |-> {}, clears |-> bufs, n |-> 0]
SetValue(n) ==
    [op |-> "setValue", ch |-> "-", reads |-> {}, writes |-> {}, clears |-> {}, n |-> n]
Poll(k) ==
    [op |-> "canceled", ch |-> "-", reads |-> {}, writes |-> {}, clears |-> {}, n |-> k]

\* the mask blendGradients is called with
BlendMaskGreenGrid(manualAg, ch) ==
    IF manualAg /\ ch # "G" THEN Buf("m_agMask", "-") ELSE Buf("patches", "-")
BlendMask(manualAg, ch) ==
    IF manualAg THEN Buf("m_agMask", "-") ELSE Buf("patches", "-")

\* the prologue without the call of reset()
AgPrologueKeepsStore ==
    << Stage("progressStarted", "-", {}, {}),
       Stage("getXYZChannels", "-", {},
             {Buf("Good", "X"), Buf("Good", "Y"), Buf("Good", "Z")}),
       Stage("createHdr", "-", {},
             {Buf("ghosted", "X"), Buf("ghosted", "Y"), Buf("ghosted", "Z")}),
       SetValue(20),
       Poll(1),
       Stage("copy", "R", {Buf("Good", "X")}, {Buf("Good_c", "R")}),
       Stage("copy", "G", {Buf("Good", "Y")}, {Buf("Good_c", "G")}),
       Stage("copy", "B", {Buf("Good", "Z")}, {Buf("Good_c", "B")}),
       Stage("copy", "R", {Buf("ghosted", "X")}, {Buf("c", "R")}),
       Stage("copy", "G", {Buf("ghosted", "X")}, {Buf("c", "G")}),
       Stage("copy", "B", {Buf("ghosted", "X")}, {Buf("c", "B")}),
       Clear("-", {Buf("ghosted", "X"), Buf("ghosted", "Y"), Buf("ghosted", "Z")}) >>

\* lines 563-592: the channels of the reference and of the fused frame
AgPrologue ==
    << Stage("progressStarted", "-", {}, {}),
       Stage("getXYZChannels", "-", {},
             {Buf("Good", "X"), Buf("Good", "Y"), Buf("Good", "Z")}),
       Stage("createHdr", "-", {},
             {Buf("ghosted", "X"), Buf("ghosted", "Y"), Buf("ghosted", "Z")}),
       SetValue(20),
       Poll(1),
       Stage("copy", "R", {Buf("Good", "X")}, {Buf("Good_c", "R")}),
       Stage("copy", "G", {Buf("Good", "Y")}, {Buf("Good_c", "G")}),
       Stage("copy", "B", {Buf("Good", "Z")}, {Buf("Good_c", "B")}),
       Stage("copy", "R", {Buf("ghosted", "X")}, {Buf("c", "R")}),
       Stage("copy", "G", {Buf("ghosted", "X")}, {Buf("c", "G")}),
       Stage("copy", "B", {Buf("ghosted", "X")}, {Buf("c", "B")}),
       Clear("-", {Buf("ghosted", "X"), Buf("ghosted", "Y"), Buf("ghosted", "Z")}),
       Stage("HdrCreationManager::reset", "-", {}, {}) >>

\* lines 594-633
AgRed(manualAg) ==
    << Stage("computeLogIrradiance", "R", {Buf("c", "R")}, {Buf("logIrradiance", "R")}),
       Clear("R", {Buf("c", "R")}),
       Stage("computeLogIrradiance", "R", {Buf("Good_c", "R")},
             {Buf("logIrradianceGood", "R")}),
       Stage("computeGradient", "R", {Buf("logIrradianceGood", "R")},
             {Buf("gradientGood", "R")}),
       Clear("R", {Buf("Good_c", "R")}),
       Clear("R", {Buf("logIrradianceGood", "R")}),
       Stage("computeGradient", "R", {Buf("logIrradiance", "R")}, {Buf("gradient", "R")}),
       Stage("blendGradients", "R",
             {Buf("gradient", "R"), Buf("gradientGood", "R"), BlendMask(manualAg, "R")},
             {Buf("gradientBlended", "R")}),
       Clear("R", {Buf("gradient", "R"), Buf("gradientGood", "R")}),
       Stage("computeDivergence", "R", {Buf("gradientBlended", "R")},
             {Buf("divergence", "R")}),
       Clear("R", {Buf("gradientBlended", "R")}) >>

\* lines 635-675
AgGreen(manualAg) ==
    << Stage("computeLogIrradiance", "G", {Buf("c", "G")}, {Buf("logIrradiance", "G")}),
       Clear("G", {Buf("c", "G")}),
       Stage("computeGradient", "G", {Buf("logIrradianceGood", "G")},
             {Buf("gradientGood", "G")}),
       Stage("computeLogIrradiance", "G", {Buf("Good_c", "G")},
             {Buf("logIrradianceGood", "G")}),
       Clear("G", {Buf("Good_c", "G")}),
       Clear("G", {Buf("logIrradianceGood", "G")}),
       Stage("computeGradient", "G", {Buf("logIrradiance", "G")}, {Buf("gradient", "G")}),
       Stage("blendGradients", "G",
             {Buf("gradient", "G"), Buf("gradientGood", "G"), BlendMask(manualAg, "G")},
             {Buf("gradientBlended", "G")}),
       Clear("G", {Buf("gradient", "G"), Buf("gradientGood", "G")}),
       Stage("computeDivergence", "G", {Buf("gradientBlended", "G")},
             {Buf("divergence", "G")}),
       Clear("G", {Buf("gradientBlended", "G")}) >>

\* lines 677-716; the last two resets are of the green arrays
AgBlue(manualAg) ==
    << Stage("computeLogIrradiance", "B", {Buf("c", "B")}, {Buf("logIrradiance", "B")}),
       Clear("B", {Buf("c", "B")}),
       Stage("computeLogIrradiance", "B", {Buf("Good_c", "B")},
             {Buf("logIrradianceGood", "B")}),
       Stage("computeGradient", "B", {Buf("logIrradianceGood", "B")},
             {Buf("gradientGood", "B")}),
       Clear("B", {Buf("Good_c", "B")}),
       Clear("B", {Buf("logIrradianceGood", "B")}),
       Stage("computeGradient", "B", {Buf("logIrradiance", "B")}, {Buf("gradient", "B")}),
       Stage("blendGradients", "B",
             {Buf("gradient", "B"), Buf("gradientGood", "B"), BlendMask(manualAg, "B")},
             {Buf("gradientBlended", "B")}),
       Clear("B", {Buf("gradient", "B"), Buf("gradientGood", "B")}),
       Stage("computeDivergence", "B", {Buf("gradientBlended", "B")},
             {Buf("divergence", "B")}),
       Clear("B", {Buf("gradientBlended", "G")}) >>

\* lines 718-780: the Poisson solves, the irradiances, clamp and white balance
AgEpilogue ==
    << Stage("solve_pde_dct", "R", {Buf("divergence", "R")}, {Buf("logIrradiance", "R")}),
       SetValue(60),
       Poll(2),
       Stage("solve_pde_dct", "G", {Buf("divergence", "G")}, {Buf("logIrradiance", "G")}),
       SetValue(76),
       Poll(3),
       Stage("solve_pde_dct", "B", {Buf("divergence", "B")}, {Buf("logIrradiance", "B")}),
       SetValue(93),
       Poll(4),
       Stage("computeIrradiance", "R", {Buf("logIrradiance", "R")}, {Buf("U", "R")}),
       Clear("R", {Buf("logIrradiance", "R")}),
       SetValue(94),
       Poll(5),
       Stage("computeIrradiance", "G", {Buf("logIrradiance", "G")}, {Buf("U", "G")}),
       Clear("G", {Buf("logIrradiance", "G")}),
       SetValue(95),
       Poll(6),
       Stage("computeIrradiance", "B", {Buf("logIrradiance", "B")}, {Buf("U", "B")}),
       Clear("B", {Buf("logIrradiance", "B")}),
       SetValue(96),
       Poll(7),
       Stage("min", "-", {Buf("U", "R"), Buf("U", "G"), Buf("U", "B")}, {Buf("m", "-")}),
       Stage("clampToZero", "-",
             {Buf("U", "R"), Buf("U", "G"), Buf("U", "B"), Buf("m", "-")},
             {Buf("U", "R"), Buf("U", "G"), Buf("U", "B")}),
       Stage("shadesOfGrayAWB", "-", {Buf("U", "R"), Buf("U", "G"), Buf("U", "B")},
             {Buf("U", "R"), Buf("U", "G"), Buf("U", "B")}),
       SetValue(100),
       Stage("progressFinished", "-", {}, {}) >>

\* the statements of doAntiGhosting in program order
doAntiGhostingStages(manualAg) ==
    AgPrologue \o AgRed(manualAg) \o AgGreen(manualAg) \o AgBlue(manualAg) \o AgEpilogue

Polls == 1..7

\* if (ph->canceled()) return NULL: the statements run when poll cancelAt is
\* the first to answer true (0: none does)
ExecutedIgnoringCancel(stages, cancelAt) == stages
Executed(stages, cancelAt) ==
    IF \E i \in DOMAIN stages : stages[i].op = "canceled" /\ stages[i].n = cancelAt
    THEN SubSeq(stages, 1,
                CHOOSE i \in DOMAIN stages :
                    stages[i].op = "canceled" /\ stages[i].n = cancelAt)
    ELSE stages

Ran(executed, op) == \E i \in DOMAIN executed : executed[i].op = op

\* what a call does, by manualAg and the poll that answers true: the number
\* of statements run, and whether the gradients were blended, reset() was
\* called and the end was reached
AgRun ==
    [manualAg \in BOOLEAN, cancelAt \in {0} \cup Polls |->
        LET executed == Executed(doAntiGhostingStages(manualAg), cancelAt)
        IN  [ran      |-> Len(executed),
             blended  |-> Ran(executed, "blendGradients"),
             didReset |-> Ran(executed, "HdrCreationManager::reset"),
             finished |-> Ran(executed, "progressFinished")]]

\* doAntiGhosting(patches, h0, manualAg, ph). It reads m_data[0] and
\* m_data[h0], undefined where the store has no such item, and *m_agMask,
\* undefined while no mask is set
DoAntiGhosting(patches, h0, manualAg, cancelAt) ==
    LET run      == AgRun[manualAg, cancelAt]
        defined  == /\ h0 >= 0
                    /\ h0 < Len(m_data)
                    /\ (manualAg /\ run.blended) => m_agMask
        didReset == run.didReset
        aborted  == didReset /\ futureState = "running"
    IN
    /\ ~crashed
    /\ \/ /\ ~defined
          /\ Crash
       \/ /\ last' = LastArg("doAntiGhosting", m_data, m_tmpdata, m_evOffset,
                             [patches |-> patches, h0 |-> h0, manualAg |-> manualAg,
                              cancelAt |-> cancelAt,
                              defined |-> defined,
                              ran |-> run.ran,
                              result |-> IF run.finished THEN "deghosted" ELSE "NULL",
                              effects |-> CurveEffects(m_responseCurveOutputFilename),
                              grid |-> IF m_data = <<>> THEN <<0, 0>>
                                       ELSE <<m_data[1].width \div agGridSize,
                                              m_data[1].height \div agGridSize>>,
                              mask |-> m_patches])
          /\ emitted' = <<"progressStarted">>
                        \o (IF aborted THEN <<"loadFilesAborted">> ELSE <<>>)
                        \o (IF run.finished THEN <<"progressFinished">> ELSE <<>>)
          /\ IF didReset
             THEN /\ IF futureState = "running"
                     THEN /\ futureCanceled' = TRUE
                          /\ futureTodo' = {}
                     ELSE UNCHANGED <<futureCanceled, futureTodo>>
                  /\ futureState' = "idle"
                  /\ loadOrder' = <<>>
                  /\ connected' = FALSE
                  /\ m_data' = <<>>
                  /\ m_tmpdata' = <<>>
             ELSE UNCHANGED <<futureCanceled, futureTodo, futureState, loadOrder,
                              connected, m_data, m_tmpdata>>
          /\ UNCHANGED <<m_evOffset, configVars, orphanEnd, crashed, agVars, pfsVars>>

\* the statements a doAntiGhosting call recorded in last has run
AgExecuted == SubSeq(doAntiGhostingStages(last.arg.manualAg), 1, last.arg.ran)

\* where the content of every buffer comes from after the statements have run
RECURSIVE Provenance(_, _)
Provenance(stages, prov) ==
    IF stages = <<>> THEN prov
    ELSE LET st == Head(stages)
             from == UNION {prov[r] : r \in st.reads}
         IN  Provenance(Tail(stages),
                [b \in DOMAIN prov |->
                    IF b \in st.writes THEN (IF st.reads = {} THEN {b} ELSE from)
                    ELSE IF b \in st.clears THEN {Cleared}
                    ELSE prov[b]])

\* the buffers that hold data after the statements have run: written, and
\* not reset since (held: those that held data before)
Holding(stages, held) ==
    LET Touched(b) == {i \in DOMAIN stages : b \in stages[i].writes \cup stages[i].clears}
        LastOf(b)  == CHOOSE i \in Touched(b) : \A j \in Touched(b) : j <= i
        all == held \cup UNION {stages[i].writes : i \in DOMAIN stages}
    IN  {b \in all : IF Touched(b) = {} THEN b \in held
                     ELSE b \in stages[LastOf(b)].writes}

AgBuffers ==
    UNION {st.reads \cup st.writes \cup st.clears :
            st \in {doAntiGhostingStages(m)[i] :
                        m \in BOOLEAN, i \in DOMAIN doAntiGhostingStages(TRUE)}}

\* before the first statement only what the caller hands in holds data
AgInitial ==
    [b \in AgBuffers |->
        IF b \in {Buf("patches", "-"), Buf("m_agMask", "-")} THEN {b}
        ELSE {Uninitialised}]

----------------------------------------------------------------------------
FileLists == UNION {[1..n -> Files] : n \in 0..MaxBatch}

\* the operations of the store and of the asynchronous load
Next ==
    \/ \E filenames \in FileLists : LoadFiles(filenames)
    \/ \E i \in 1..MaxStore : WorkerLoad(i)
    \/ \E i \in 1..MaxStore : OrphanLoad(i)
    \/ OrphanFinished
    \/ ProgressCancel
    \/ LoadFilesDone
    \/ \E idx \in 0..(MaxStore - 1) : RemoveFile(idx)
    \/ ClearFiles
    \/ Reset

\* the manager with the configuration it is constructed with
Spec == Init /\ [][Next]_vars

\* loadFiles as a caller issues it that waits for the batch before to settle
LoadFilesIdle(filenames) ==
    /\ futureState = "idle"
    /\ ~MapActive
    /\ LoadFiles(filenames)

\* batches loaded one after the other, the completion order of the loads
\* recorded, and removeFile called with any index
NextOrder ==
    \/ \E filenames \in FileLists : LoadFilesIdle(filenames)
    \/ \E i \in 1..MaxStore : WorkerLoadRecorded(i)
    \/ ProgressCancel
    \/ LoadFilesDone
    \/ \E idx \in 0..(MaxStore - 1) : RemoveFile(idx)
    \/ \E idx \in (0 - 1)..MaxStore : RemoveFileOutOfRange(idx)

SpecOrder == Init /\ [][NextOrder]_vars

OffsetLists == UNION {[1..n -> HvOffsets] : n \in 0..MaxStore}

\* a wizard run: batches loaded one after the other, the configuration set at
\* any time, and createHdr
NextCurve ==
    \/ \E filenames \in FileLists : LoadFilesIdle(filenames)
    \/ \E i \in 1..MaxStore : WorkerLoad(i)
    \/ LoadFilesDone
    \/ \E c \in Configs : SetConfig(c)
    \/ CreateHdr

SpecCurve == Init /\ [][NextCurve]_vars

\* a wizard run: batches loaded one after the other, items removed, shifted
\* and cropped, and createHdr
NextFusion ==
    \/ \E filenames \in FileLists : LoadFilesIdle(filenames)
    \/ \E i \in 1..MaxStore : WorkerLoad(i)
    \/ LoadFilesDone
    \/ \E idx \in 0..(MaxStore - 1) : RemoveFile(idx)
    \/ \E hvOffsets \in OffsetLists : ApplyShiftsToItems(hvOffsets)
    \/ \E ca \in CropRects : CropItems(ca)
    \/ CreateHdr

SpecFusion == Init /\ [][NextFusion]_vars

\* the exposures of a ghost detection run, and the offsets the alignment found
\* for them: the first k items shifted by one column
ExposureLists == {<<"a">>, <<"a", "b">>, <<"b", "a">>, <<"a", "a">>, <<"b", "b">>}
AlignedOffsets ==
    {[h \in 1..n |-> IF h <= k THEN <<1, 0>> ELSE <<0, 0>>] :
        n \in 0..MaxStore, k \in 0..MaxStore}

\* a wizard run with ghost detection: batches loaded one after the other,
\* computePatches, and masks set by hand
NextPatches ==
    \/ \E filenames \in ExposureLists : LoadFilesIdle(filenames)
    \/ \E i \in 1..MaxStore : WorkerLoad(i)
    \/ LoadFilesDone
    \/ \E threshold \in Thresholds, HV_offset \in AlignedOffsets :
            ComputePatches(threshold, HV_offset)
    \/ \E patches \in PatchMasks : SetPatches(patches)

SpecPatches == Init /\ [][NextPatches]_vars

\* a wizard run with deghosting: batches loaded one after the other, a patch
\* mask or a freehand mask set, and doAntiGhosting with a progress handle that
\* may be cancelled at any of its polls
NextAntiGhosting ==
    \/ \E filenames \in {<<"a">>, <<"a", "b">>} : LoadFilesIdle(filenames)
    \/ \E i \in 1..MaxStore : WorkerLoad(i)
    \/ LoadFilesDone
    \/ \E patches \in PatchMasks : SetPatches(patches)
    \/ SetAntiGhostingMask
    \/ \E patches \in {m_patches}, h0 \in 0..(MaxStore - 1), manualAg \in BOOLEAN,
          cancelAt \in {0} \cup Polls :
            DoAntiGhosting(patches, h0, manualAg, cancelAt)

SpecAntiGhosting == Init /\ [][NextAntiGhosting]_vars

\* a wizard run that ends in createHdr: batches loaded one after the other,
\* a mask set, the output curve file set
NextOutput ==
    \/ \E filenames \in FileLists : LoadFilesIdle(filenames)
    \/ \E i \in 1..MaxStore : WorkerLoad(i)
    \/ LoadFilesDone
    \/ \E patches \in PatchMasks : SetPatches(patches)
    \/ \E filename \in {"", OutputCurveFile} : SetResponseCurveOutputFile(filename)
    \/ CreateHdr

SpecOutput == Init /\ [][NextOutput]_vars

\* the manager whose configuration the wizard sets at any time
NextConfig ==
    \/ Next
    \/ \E c \in Configs : SetConfig(c)

SpecConfig == Init /\ [][NextConfig]_vars

----------------------------------------------------------------------------
(* Vocabulary of the claims *)

Range(q) == {q[i] : i \in DOMAIN q}

\* a step of loadFiles, whatever the paths
LoadFilesStep == \E filenames \in FileLists : LoadFiles(filenames)

\* the EVs of the items of a store that have one, with their positions
EVPositions(data) == {i \in DOMAIN data : data[i].hasEV}

\* m is the element at place ceil(n/2) of the ascending sort of the known EVs
\* of data (the lower median), and 0 when there is none
IsLowerMedian(m, data) ==
    LET P == EVPositions(data)
        n == Cardinality(P)
        k == CHOOSE j \in 0..n : 2 * j >= n /\ 2 * (j - 1) < n
    IN  IF n = 0 THEN m = 0
        ELSE /\ \E i \in P : data[i].ev = m
             /\ Cardinality({i \in P : data[i].ev < m}) <= k - 1
             /\ Cardinality({i \in P : data[i].ev <= m}) >= k

\* two items of a store differ in width or in height
SizesDiffer(data) ==
    \E i, j \in DOMAIN data :
        data[i].width # data[j].width \/ data[i].height # data[j].height

\* the items of a batch whose validity flag is set, in the order of the batch
RECURSIVE ValidOf(_)
ValidOf(tmp) ==
    IF tmp = <<>> THEN <<>>
    ELSE IF Head(tmp).valid THEN <<Head(tmp)>> \o ValidOf(Tail(tmp))
    ELSE ValidOf(Tail(tmp))

----------------------------------------------------------------------------
(* C1 *)

\* C1: the store holds at most one item per path, whatever loadFiles calls and
\* completions came before.
C1_OnePathOnce ==
    \A i, j \in DOMAIN m_data : i # j => m_data[i].name # m_data[j].name

----------------------------------------------------------------------------
(* C2 *)

\* C2: when loadFilesDone has merged a batch and two items of the store differ
\* in width or height, the whole store is emptied, errorWhileLoading is emitted
\* and finishedLoadingFiles is not.
C2_SizeMismatchClearsStore ==
    (/\ last.op \in {"loadFilesDone_ok", "loadFilesDone_mismatch"}
     /\ SizesDiffer(last.data \o ValidOf(last.tmp)))
    => /\ m_data = <<>>
       /\ "errorWhileLoading" \in Range(emitted)
       /\ "finishedLoadingFiles" \notin Range(emitted)

\* a batch was merged onto a store committed earlier, the sizes differed and
\* the store is now empty
C2_Witness ==
    /\ last.op = "loadFilesDone_mismatch"
    /\ last.data # <<>>
    /\ ValidOf(last.tmp) # <<>>
    /\ SizesDiffer(last.data \o ValidOf(last.tmp))
    /\ m_data = <<>>
    /\ emitted = <<"errorWhileLoading">>

----------------------------------------------------------------------------
(* C3 *)

\* C3: after every loadFilesDone merge and every removeFile, m_evOffset is the
\* lower median of the known EVs of the items of the store (0 when none).
C3_OffsetIsMedianAfterMergeAndRemove ==
    last.op \in {"loadFilesDone_ok", "loadFilesDone_mismatch", "removeFile"}
        => IsLowerMedian(m_evOffset, m_data)

----------------------------------------------------------------------------
(* C4 *)

\* C4: whenever no load is in flight, m_evOffset is the value derived from the
\* current store; in particular it is 0 when the store is empty.
C4_OffsetFollowsStore ==
    (futureState = "idle" /\ orphanEnd = 0) => IsLowerMedian(m_evOffset, m_data)

----------------------------------------------------------------------------
(* C5 *)

\* C5: when the batch finished cancelled, loadFilesDone empties m_tmpdata, emits
\* errorWhileLoading and no finishedLoadingFiles, and leaves m_data and
\* m_evOffset as they were.
C5_CancelledBatchDiscarded ==
    last.op = "loadFilesDone_cancelled"
    => /\ m_tmpdata = <<>>
       /\ "errorWhileLoading" \in Range(emitted)
       /\ "finishedLoadingFiles" \notin Range(emitted)
       /\ m_data = last.data
       /\ m_evOffset = last.evOffset

\* a cancelled batch with pending items was dropped beside a committed store
C5_Witness ==
    /\ last.op = "loadFilesDone_cancelled"
    /\ last.tmp # <<>>
    /\ last.data # <<>>
    /\ m_data = last.data
    /\ m_tmpdata = <<>>
    /\ emitted = <<"errorWhileLoading">>

----------------------------------------------------------------------------
(* C6 *)

\* the batch in flight is cancelled by reset()
ResetOfRunningLoad == Reset /\ futureState = "running"

\* the batch cancelled in flight by progressCancel settles in loadFilesDone
SettleAfterProgressCancel == LoadFilesDone /\ last.op = "progressCancel"

\* C6 as stated: cancelling an in-flight batch, by progressCancel or by reset(),
\* empties m_tmpdata, emits loadFilesAborted and leaves m_data untouched.
C6_CancelAbortsAndKeepsStore ==
    [][ (ResetOfRunningLoad \/ SettleAfterProgressCancel)
        => /\ m_tmpdata' = <<>>
           /\ "loadFilesAborted" \in Range(emitted')
           /\ m_data' = m_data ]_vars

\* C6 as amended: a batch cancelled by progressCancel settles in loadFilesDone,
\* which empties m_tmpdata, emits errorWhileLoading (not loadFilesAborted) and
\* leaves m_data untouched; reset() of a running load emits loadFilesAborted
\* and empties m_tmpdata and m_data alike.
C6_CancelPaths ==
    /\ last.op = "loadFilesDone_cancelled"
        => /\ m_tmpdata = <<>>
           /\ emitted = <<"errorWhileLoading">>
           /\ m_data = last.data
    /\ last.op = "reset_aborted"
        => /\ m_tmpdata = <<>>
           /\ emitted = <<"loadFilesAborted">>
           /\ m_data = <<>>

\* reset() has aborted a running load while the store held committed items
C6_Witness ==
    /\ last.op = "reset_aborted"
    /\ last.data # <<>>
    /\ last.tmp # <<>>
    /\ m_data = <<>>
    /\ m_tmpdata = <<>>
    /\ emitted = <<"loadFilesAborted">>

----------------------------------------------------------------------------
(* C7 *)

\* C7: while a batch is in flight no loadFiles call appends to m_tmpdata and
\* none starts a further map beside the one that is running.
C7_OneBatchInFlight ==
    [][ (futureState = "running" /\ LoadFilesStep /\ ~crashed')
        => /\ m_tmpdata' = m_tmpdata
           /\ orphanEnd' = orphanEnd ]_vars

----------------------------------------------------------------------------
(* C8 *)

\* C8: while a batch is in flight, m_data and m_evOffset are not modified.
C8_StoreFrozenInFlight ==
    [][ (futureState = "running" /\ ~crashed')
        => /\ m_data' = m_data
           /\ m_evOffset' = m_evOffset ]_vars

----------------------------------------------------------------------------
(* C9 *)

\* C9: the EV-offset recomputation and the size check of loadFilesDone run only
\* when every scheduled load has finished, and on a store that holds every
\* valid item of the batch.
C9_ChecksAfterBatchSettled ==
    [][ (LoadFilesDone /\ ~futureCanceled /\ ~crashed')
        => /\ futureTodo = {}
           /\ orphanEnd = 0
           /\ m_evOffset' = refreshEVOffset(m_data \o ValidOf(m_tmpdata)) ]_vars

----------------------------------------------------------------------------
(* C10 *)

\* C10: after a batch completed without cancellation and without size mismatch,
\* the store is the store before it followed by exactly the valid items of the
\* batch, in their order; no invalid item is inserted, and no error is
\* notified for one (the only error left is a response curve that failed to load).
C10_MergeAppendsValidItems ==
    last.op = "loadFilesDone_ok"
    => /\ m_data = last.data \o ValidOf(last.tmp)
       /\ \A i \in DOMAIN m_data : m_data[i].valid
       /\ "finishedLoadingFiles" \in Range(emitted)
       /\ ("errorWhileLoading" \in Range(emitted)
            => m_responseCurveInputFilename = BadCurveFile)

\* a batch holding a valid and an invalid item was merged onto a committed store
C10_Witness ==
    /\ last.op = "loadFilesDone_ok"
    /\ last.data # <<>>
    /\ \E i \in DOMAIN last.tmp : last.tmp[i].valid
    /\ \E i \in DOMAIN last.tmp : ~last.tmp[i].valid
    /\ m_data = last.data \o ValidOf(last.tmp)
    /\ emitted = <<"finishedLoadingFiles">>

----------------------------------------------------------------------------
(* C11 *)

\* the items of a batch in the order given by a sequence of positions
InOrder(tmp, order) == [k \in 1..Len(order) |-> tmp[order[k]]]

\* what a merge has appended to the store it found
Appended == SubSeq(m_data, Len(last.data) + 1, Len(m_data))

\* C11 as stated: the valid items of a batch are appended in the order in which
\* their loads completed, not in the order of submission.
C11_MergeInCompletionOrder ==
    last.op = "loadFilesDone_ok"
    => Appended = ValidOf(InOrder(last.tmp, last.arg))

\* C11 as amended: the valid items of a batch are appended in the order in
\* which their paths were submitted (the order of m_tmpdata), whatever the
\* order in which their loads completed.
C11_MergeInSubmissionOrder ==
    last.op = "loadFilesDone_ok"
    => /\ Appended = ValidOf(last.tmp)
       /\ \A k \in DOMAIN last.arg : last.arg[k] \in DOMAIN last.tmp

\* a batch of two different valid items whose second load completed first was
\* merged in the order of submission
C11_Witness ==
    /\ last.op = "loadFilesDone_ok"
    /\ last.arg = <<2, 1>>
    /\ Len(last.tmp) = 2
    /\ last.tmp[1].valid /\ last.tmp[2].valid
    /\ last.tmp[1].name # last.tmp[2].name
    /\ Appended = <<last.tmp[1], last.tmp[2]>>

----------------------------------------------------------------------------
(* C12 *)

\* removeFile(idx) has removed the item at position idx (from 0) and no other
RemovedExactly(idx) ==
    /\ 0 <= idx /\ idx < Len(last.data)
    /\ Len(m_data) = Len(last.data) - 1
    /\ \A i \in 1..idx : m_data[i] = last.data[i]
    /\ \A i \in (idx + 1)..Len(m_data) : m_data[i] = last.data[i + 1]
    /\ IsLowerMedian(m_evOffset, m_data)

----------------------------------------------------------------------------
(* C13 *)

\* the merge of loadFilesDone that was just run on a batch failed to read the
\* requested response curve (the request is still pending after it)
CurveReadFailed ==
    /\ last.op \in {"loadFilesDone_ok", "loadFilesDone_mismatch"}
    /\ last.tmp # <<>>
    /\ m_isLoadResponseCurve
    /\ "errorWhileLoading" \in Range(emitted)

\* C13: when reading the response curve fails in loadFilesDone, the batch is
\* not reported as loaded (no finishedLoadingFiles), and a createHdr called
\* next does not run the fusion.
C13_CurveFailureStopsFusion ==
    [][ /\ CurveReadFailed' => "finishedLoadingFiles" \notin Range(emitted')
        /\ (CurveReadFailed /\ m_data # <<>> /\ CreateHdr)
            => last'.op # "createHdr" ]_vars

----------------------------------------------------------------------------
(* C14 *)

\* C14: whenever createHdr fuses a store while a configuration with the curve
\* file is set, the fusion is made with the curve read from that file, whether
\* the configuration was set before or after the exposures were loaded.
C14_CurveReadBeforeFusion ==
    (/\ last.op = "createHdr"
     /\ Len(last.data) >= 2
     /\ m_responseCurveInputFilename = GoodCurveFile)
    => last.arg.outputFrame.response.file = GoodCurveFile

----------------------------------------------------------------------------
(* C16 *)

\* C16: for a store of N >= 2 items of one size, createHdr hands all N items
\* to the fusion, each with its own frame and the scale 2^(EV - m_evOffset),
\* and the frame it returns has the width and height of the inputs.
C16_FusionTakesEveryItem ==
    (last.op = "createHdr" /\ Len(last.data) >= 2)
    => LET frames == last.arg.frames
           out == last.arg.outputFrame
       IN  /\ Len(frames) = Len(last.data)
           /\ \A i \in DOMAIN last.data :
                /\ last.data[i].valid
                /\ frames[i].name = last.data[i].name
                /\ frames[i].width = last.data[i].width
                /\ frames[i].height = last.data[i].height
                /\ frames[i].exp = last.data[i].ev - last.evOffset
                /\ out.width = last.data[i].width
                /\ out.height = last.data[i].height
           /\ out.exposures = Len(last.data)

\* a store of two exposures with different EVs was fused: the scales differ
\* and the frame has the size of the exposures
C16_Witness ==
    /\ last.op = "createHdr"
    /\ Len(last.data) = 2
    /\ last.data[1].ev # last.data[2].ev
    /\ last.arg.frames[1].exp # last.arg.frames[2].exp
    /\ last.arg.outputFrame.exposures = 2
    /\ last.arg.outputFrame.height = last.data[2].height

----------------------------------------------------------------------------
(* C17 *)

\* C17: after any sequence of load batches, removeFile, applyShiftsToItems and
\* cropItems, all items of the store have the same width and height, and so
\* has every store createHdr was run on.
C17_StoreGeometryConsistent ==
    /\ ~SizesDiffer(m_data)
    /\ last.op = "createHdr" => ~SizesDiffer(last.data)

\* a store of several items was cropped to a smaller size
C17_Witness ==
    /\ last.op = "cropItems"
    /\ Len(m_data) >= 2
    /\ m_data[1].height # last.data[1].height
    /\ \A i \in DOMAIN m_data : m_data[i].height = last.arg.height

----------------------------------------------------------------------------
(* C15 *)

----------------------------------------------------------------------------
(* C18 *)

\* C18: computePatches and createHdr never run to the end on a store of fewer
\* than two items: no mask and no frame comes from a single exposure. (On an
\* empty store the first read is undefined already; the store of one item is
\* the case every build decides.)
C18_FailFastBelowTwo ==
    (last.op \in {"createHdr", "computePatches"} /\ last.data # <<>>)
        => Len(last.data) >= 2

----------------------------------------------------------------------------
(* C19 *)

\* C19: what computePatches returns and leaves behind (mask, reference index,
\* percentage) is a function of the items, the threshold and the offsets
\* alone: it does not depend on the m_patches and m_agGoodImageIndex that an
\* earlier computePatches or setPatches left.
C19_ComputePatchesHistoryIndependent ==
    (last.op = "computePatches" /\ last.data # <<>>) =>
        LET good == findIndex(hueSquaredMean(last.data))
            mask == FlagPatches(NoPatches, last.data, good, 0,
                                last.arg.threshold, last.arg.offsets)
        IN  /\ m_patches = mask
            /\ last.arg.patches = mask
            /\ m_agGoodImageIndex = good
            /\ last.arg.index = good
            /\ last.arg.percent = PatchPercent(mask)

\* computePatches ran on two items over a mask that had a cell flagged which
\* the run itself does not flag, and flagged another
C19_Witness ==
    /\ last.op = "computePatches"
    /\ Len(last.data) = 2
    /\ \E c \in Cells : last.arg.before[c] /\ ~m_patches[c]
    /\ \E c \in Cells : m_patches[c]

----------------------------------------------------------------------------
(* C20 *)

\* C20: for the same items and offsets, a larger threshold flags a subset of
\* the cells: after computePatches with threshold t1, the mask of any
\* t2 >= t1 lies within the mask left, and its count and percentage are no
\* larger.
C20_MaskMonotonicInThreshold ==
    (last.op = "computePatches" /\ last.data # <<>>) =>
        \A t2 \in Thresholds :
            t2 >= last.arg.threshold =>
                LET mask2 == FlagPatches(ClearedPatches(last.arg.before), last.data,
                                         last.arg.index, 0, t2, last.arg.offsets)
                IN  /\ \A c \in Cells : mask2[c] => m_patches[c]
                    /\ PatchCount(mask2) <= PatchCount(m_patches)
                    /\ PatchPercent(mask2) <= last.arg.percent

\* computePatches flagged some cells of two items, and a larger threshold
\* flags strictly fewer but still some
C20_Witness ==
    /\ last.op = "computePatches"
    /\ Len(last.data) = 2
    /\ \E t2 \in Thresholds :
        /\ t2 > last.arg.threshold
        /\ LET mask2 == FlagPatches(NoPatches, last.data, last.arg.index, 0,
                                    t2, last.arg.offsets)
           IN  /\ PatchCount(mask2) > 0
               /\ PatchCount(mask2) < PatchCount(m_patches)

----------------------------------------------------------------------------
(* C21 *)

\* C21: after computePatches a cell of the mask is true if and only if the
\* comparison with the reference flags it for at least one other image; a
\* later image does not clear it, and the reference is not compared with
\* itself.
C21_MaskIsUnionOverOtherImages ==
    (last.op = "computePatches" /\ last.data # <<>>) =>
        LET data == last.data
            good == last.arg.index
            offs == last.arg.offsets
            Differs(h, c) ==
                LET deltaEV == FileLogLuminance(data[good + 1].name)
                               - FileLogLuminance(data[h + 1].name)
                    dx == offs[good + 1][1] - offs[h + 1][1]
                    dy == offs[good + 1][2] - offs[h + 1][2]
                IN  comparePatches(data[good + 1], data[h + 1], c[1], c[2],
                                   last.arg.threshold,
                                   sdv(data[good + 1], data[h + 1], deltaEV, dx, dy),
                                   deltaEV, dx, dy)
        IN  /\ last.arg.compared = (0..(Len(data) - 1)) \ {good}
            /\ \A c \in Cells :
                    m_patches[c] <=> \E h \in last.arg.compared : Differs(h, c)

\* three items were compared: the first image after the reference flags a
\* cell that the last image does not, and the cell is flagged
C21_Witness ==
    /\ last.op = "computePatches"
    /\ Len(last.data) = 3
    /\ Cardinality(last.arg.compared) = 2
    /\ \E c \in Cells :
        /\ m_patches[c]
        /\ LET hLast == CHOOSE h \in last.arg.compared :
                            \A g \in last.arg.compared : g <= h
           IN  FlagPatches(NoPatches, <<last.data[last.arg.index + 1], last.data[hLast + 1]>>,
                           0, 0, last.arg.threshold,
                           <<last.arg.offsets[last.arg.index + 1],
                             last.arg.offsets[hLast + 1]>>)[c] = FALSE

----------------------------------------------------------------------------
(* C22 *)

\* C22: the percentage computePatches reports is the number of true cells of
\* the returned mask over the number of cells, times 100; it lies between 0
\* and 100 and is 0 exactly when no cell is flagged.
C22_PercentOfFlaggedCells ==
    last.op = "computePatches" =>
        LET n == Cardinality({c \in Cells : last.arg.patches[c]})
        IN  /\ last.arg.percent = (n * 100) \div Cardinality(Cells)
            /\ last.arg.percent >= 0
            /\ last.arg.percent <= 100
            /\ (last.arg.percent = 0) <=> (n = 0)

\* some cells of the returned mask are flagged and some are not
C22_Witness ==
    /\ last.op = "computePatches"
    /\ Len(last.data) >= 2
    /\ last.arg.percent > 0
    /\ last.arg.percent < 100

----------------------------------------------------------------------------
(* C23 *)

\* C23: a doAntiGhosting that was cancelled at one of its polls returns NULL
\* and leaves the store, m_evOffset and the patch mask as they were before the
\* call.
C23_CancelLeavesSharedState ==
    (last.op = "doAntiGhosting" /\ last.arg.defined /\ Len(last.data) >= 2
        /\ last.arg.cancelAt # 0) =>
        /\ last.arg.result = "NULL"
        /\ m_data = last.data
        /\ m_evOffset = last.evOffset
        /\ m_patches = last.arg.mask

\* a defined doAntiGhosting call is the last operation
AgCall == last.op = "doAntiGhosting" /\ last.arg.defined

\* the same, on a store of two exposures or more
AgCallOnStack == AgCall /\ Len(last.data) >= 2

----------------------------------------------------------------------------
(* C24 *)

AgHeavy == {"createHdr", "solve_pde_dct", "computeIrradiance"}
AgLate  == {"solve_pde_dct", "computeIrradiance", "clampToZero", "shadesOfGrayAWB"}

\* C24: canceled() is polled after the fusion rebuild, after each Poisson
\* solve and after each irradiance reconstruction, before any further such
\* stage; a call whose poll answered true ends at that poll with NULL, so no
\* later stage has run.
C24_PollAfterEachStage ==
    AgCall =>
        LET E == AgExecuted
            k == last.arg.cancelAt
        IN  /\ \A i \in DOMAIN E :
                    E[i].op \in AgHeavy =>
                        \E j \in DOMAIN E :
                            /\ j > i
                            /\ E[j].op = "canceled"
                            /\ \A m \in (i + 1)..(j - 1) :
                                    E[m].op \notin AgHeavy \cup AgLate
            /\ k # 0 =>
                    /\ last.arg.result = "NULL"
                    /\ E[Len(E)].op = "canceled"
                    /\ E[Len(E)].n = k
                    /\ {E[i].n : i \in {j \in DOMAIN E : E[j].op = "canceled"}} = 1..k
                    /\ Cardinality({i \in DOMAIN E : E[i].op = "solve_pde_dct"})
                            = IF k = 1 THEN 0 ELSE IF k <= 4 THEN k - 1 ELSE 3
                    /\ Cardinality({i \in DOMAIN E : E[i].op = "computeIrradiance"})
                            = IF k <= 4 THEN 0 ELSE k - 4
                    /\ \A i \in DOMAIN E :
                            E[i].op \notin {"clampToZero", "shadesOfGrayAWB",
                                            "progressFinished"}
            /\ k = 0 =>
                    /\ last.arg.result = "deghosted"
                    /\ {E[i].n : i \in {j \in DOMAIN E : E[j].op = "canceled"}} = Polls

\* the poll after the green Poisson solve answered true: two solves have run,
\* the blue one and the irradiances have not
C24_Witness ==
    /\ AgCall
    /\ last.arg.cancelAt = 3
    /\ Len(last.data) = 2
    /\ Cardinality({i \in DOMAIN AgExecuted : AgExecuted[i].op = "solve_pde_dct"}) = 2
    /\ \A i \in DOMAIN AgExecuted : AgExecuted[i].op # "computeIrradiance"

----------------------------------------------------------------------------
(* C25 *)

\* the channel of a frame that belongs to a colour
AgFrameChannel(ch) == CASE ch = "R" -> "X" [] ch = "G" -> "Y" [] OTHER -> "Z"

\* C25: what is fed to the Poisson solve of colour c comes from channel c of
\* the fused frame and channel c of the reference frame, from no other
\* channel of either.
C25_ChannelsIndependent ==
    AgCallOnStack =>
        \A i \in DOMAIN AgExecuted :
            AgExecuted[i].op = "solve_pde_dct" =>
                LET prov == Provenance(SubSeq(AgExecuted, 1, i - 1), AgInitial)
                    fed  == UNION {prov[r] : r \in AgExecuted[i].reads}
                    own  == AgFrameChannel(AgExecuted[i].ch)
                IN  \A b \in fed : b[1] \in {"ghosted", "Good"} => b[2] = own

----------------------------------------------------------------------------
(* C26 *)

\* C26: every statement of doAntiGhosting reads only buffers that have been
\* written before it (and not reset since): log-irradiance before gradient,
\* gradients before blend, blend before divergence, divergence before solve.
C26_StagesInDependencyOrder ==
    AgCallOnStack =>
        \A i \in DOMAIN AgExecuted :
            AgExecuted[i].reads \subseteq
                Holding(SubSeq(AgExecuted, 1, i - 1),
                        {Buf("patches", "-"), Buf("m_agMask", "-")})

----------------------------------------------------------------------------
(* C27 *)

\* C27: all blendGradients calls of one doAntiGhosting run take the same mask:
\* m_agMask if and only if manualAg is true (a mask having been set),
\* otherwise the caller's patch grid with cells of floor(width / agGridSize)
\* by floor(height / agGridSize).
C27_OneMaskPerRun ==
    AgCall =>
        LET blends == {i \in DOMAIN AgExecuted : AgExecuted[i].op = "blendGradients"}
            masks  == {b \in UNION {AgExecuted[i].reads : i \in blends} :
                          b[1] \in {"m_agMask", "patches"}}
        IN  blends # {} =>
                /\ masks = {IF last.arg.manualAg THEN Buf("m_agMask", "-")
                                                  ELSE Buf("patches", "-")}
                /\ last.arg.manualAg => m_agMask
                /\ last.arg.grid = <<last.data[1].width \div agGridSize,
                                     last.data[1].height \div agGridSize>>

\* a run with the freehand mask went to its end: three blends with m_agMask
C27_Witness ==
    /\ AgCall
    /\ last.arg.manualAg
    /\ m_agMask
    /\ last.arg.result = "deghosted"
    /\ Cardinality({i \in DOMAIN AgExecuted : AgExecuted[i].op = "blendGradients"}) = 3

----------------------------------------------------------------------------
(* C28 *)

\* C28: setConfig(c) with an empty input response-curve filename leaves no
\* response-curve file to be read by a later load batch, and the response
\* type is the one c asks for.
C28_SetConfigTakesFullEffect ==
    [][ \A c \in Configs :
            (SetConfig(c) /\ c.inputResponseCurveFilename = "")
                => /\ ~m_isLoadResponseCurve'
                   /\ m_response'.type = c.responseCurve ]_vars

----------------------------------------------------------------------------
(* C29 *)

\* C29: after reset() the store and the pending batch are empty, no load
\* worker is running, loadFilesAborted has been emitted if and only if a batch
\* was running, and loadFilesDone is not due for the cancelled batch.
C29_ResetSettlesEverything ==
    last.op \in {"reset", "reset_aborted"} =>
        /\ m_data = <<>>
        /\ m_tmpdata = <<>>
        /\ ~MapActive
        /\ ("loadFilesAborted" \in Range(emitted)) <=> (last.op = "reset_aborted")
        /\ ~connected

----------------------------------------------------------------------------
(* C30 *)

\* C30: every loadFilesDone of a batch of at least one item emits exactly one
\* terminal notification, either finishedLoadingFiles or errorWhileLoading.
C30_OneTerminalNotification ==
    (/\ last.op \in {"loadFilesDone_ok", "loadFilesDone_mismatch",
                     "loadFilesDone_cancelled"}
     /\ last.tmp # <<>>)
        => emitted \in {<<"finishedLoadingFiles">>, <<"errorWhileLoading">>}

----------------------------------------------------------------------------
(* C31 *)

\* C31: a loadFilesDone that is not cancelled, of a batch of duplicates or of
\* invalid items, reads m_tmpdata[0] only when the pending batch is non-empty,
\* and calls framesHaveSameSize only on a store that is non-empty after the
\* merge.
C31_NeverIndexesEmptyContainer ==
    [][ (LoadFilesDone /\ ~futureCanceled /\ (m_data # <<>> \/ m_tmpdata # <<>>))
            => /\ m_isLoadResponseCurve => m_tmpdata # <<>>
               /\ MergedStore # <<>> ]_vars

----------------------------------------------------------------------------
(* C32 *)

\* C32: when doAntiGhosting has returned, with a frame or cancelled at any of
\* its polls, each progressStarted it emitted is followed in its emissions by
\* a progressFinished.
C32_ProgressStartedIsFinished ==
    AgCallOnStack =>
        \A i \in DOMAIN emitted :
            emitted[i] = "progressStarted"
                => \E j \in DOMAIN emitted : j > i /\ emitted[j] = "progressFinished"

----------------------------------------------------------------------------
(* C33 *)

\* C33: a doAntiGhosting that got past its first cancellation check has
\* called reset(): when it returns, with a frame or with NULL, the store and
\* the pending batch are empty, whatever they held at the call.
C33_ReturnsWithEmptyStore ==
    (AgCall /\ last.arg.cancelAt # 1) =>
        /\ Ran(AgExecuted, "HdrCreationManager::reset")
        /\ m_data = <<>>
        /\ m_tmpdata = <<>>

\* a call on two exposures was cancelled after the red Poisson solve: NULL is
\* returned and the two exposures are gone
C33_Witness ==
    /\ AgCall
    /\ last.arg.cancelAt = 2
    /\ last.arg.result = "NULL"
    /\ Len(last.data) = 2
    /\ m_data = <<>>

----------------------------------------------------------------------------
(* TonemapOperator: tonemapFrame and the static mutexes *)

\* the operator kinds whose tonemapFrame takes the static mutex of its class
LockedKinds == {"mantiuk06", "durand", "reinhard02"}

\* the kinds the threads run: the three above and one that takes no lock
ThreadKinds == LockedKinds \cup {"fattal"}

\* a mutex that belongs to each operator object instead of to the class
MutexPerInstance(kind, t) == <<kind, t>>

\* the mutex tonemapFrame locks: m_mutex is a static member, one per class,
\* whatever object the call is made on (each thread t has its own object)
MutexOf(kind, t) == <<kind, 0>>

MutexHeld(m) == \E u \in Threads : <<m, u>> \in tmLocked

\* a catch block that rethrows without unlocking
CatchKeepsLock(m, t) == tmLocked

\* catch (...) { m_mutex.unlock(); throw std::runtime_error("Tonemap Failed"); }
CatchUnlocks(m, t) == tmLocked \ {<<m, t>>}

\* a thread calls tonemapFrame on an operator of the kind: ph.setMaximum(100)
\* (and the colour space conversion of reinhard02) up to m_mutex.lock(), or
\* up to the call of the operator function where the class has no mutex
TonemapFrame(t, kind) ==
    /\ tmPc[t] = "idle"
    /\ tmKind' = [tmKind EXCEPT ![t] = kind]
    /\ tmResult' = [tmResult EXCEPT ![t] = "none"]
    /\ tmPc' = [tmPc EXCEPT ![t] = IF kind \in LockedKinds THEN "lock" ELSE "operator"]
    /\ UNCHANGED tmLocked

\* m_mutex.lock() returns: the mutex was free and is now held by the thread
Lock(t) ==
    /\ tmPc[t] = "lock"
    /\ ~MutexHeld(MutexOf(tmKind[t], t))
    /\ tmLocked' = tmLocked \cup {<<MutexOf(tmKind[t], t), t>>}
    /\ tmPc' = [tmPc EXCEPT ![t] = "operator"]
    /\ UNCHANGED <<tmKind, tmResult>>

\* the operator function returns
OperatorReturns(t) ==
    /\ tmPc[t] = "operator"
    /\ IF tmKind[t] \in LockedKinds
       THEN /\ tmPc' = [tmPc EXCEPT ![t] = "unlock"]
            /\ UNCHANGED tmResult
       ELSE /\ tmPc' = [tmPc EXCEPT ![t] = "idle"]
            /\ tmResult' = [tmResult EXCEPT ![t] = "returned"]
    /\ UNCHANGED <<tmKind, tmLocked>>

\* the operator function throws: into the catch block where there is one,
\* out of tonemapFrame as it is where there is none
OperatorThrows(t) ==
    /\ tmPc[t] = "operator"
    /\ IF tmKind[t] \in LockedKinds
       THEN /\ tmPc' = [tmPc EXCEPT ![t] = "catch"]
            /\ UNCHANGED tmResult
       ELSE /\ tmPc' = [tmPc EXCEPT ![t] = "idle"]
            /\ tmResult' = [tmResult EXCEPT ![t] = "exception"]
    /\ UNCHANGED <<tmKind, tmLocked>>

\* m_mutex.unlock() after the try block, and the rest of tonemapFrame
Unlock(t) ==
    /\ tmPc[t] = "unlock"
    /\ tmLocked' = tmLocked \ {<<MutexOf(tmKind[t], t), t>>}
    /\ tmPc' = [tmPc EXCEPT ![t] = "idle"]
    /\ tmResult' = [tmResult EXCEPT ![t] = "returned"]
    /\ UNCHANGED tmKind

\* the catch block
CatchUnlock(t) ==
    /\ tmPc[t] = "catch"
    /\ tmLocked' = CatchUnlocks(MutexOf(tmKind[t], t), t)
    /\ tmPc' = [tmPc EXCEPT ![t] = "idle"]
    /\ tmResult' = [tmResult EXCEPT ![t] = "Tonemap Failed"]
    /\ UNCHANGED tmKind

\* threads that tonemap frames, over and over
NextTonemap ==
    /\ UNCHANGED <<storeVars, configVars, futureVars, agVars, emitted, last, crashed, regVars, cpVars, frVars>>
    /\ \/ \E t \in Threads, kind \in ThreadKinds : TonemapFrame(t, kind)
       \/ \E t \in Threads : Lock(t)
       \/ \E t \in Threads : OperatorReturns(t)
       \/ \E t \in Threads : OperatorThrows(t)
       \/ \E t \in Threads : Unlock(t)
       \/ \E t \in Threads : CatchUnlock(t)

SpecTonemap == Init /\ [][NextTonemap]_vars

\* the same threads where every operator function comes to an end, every
\* thread goes on to its unlock, and a thread blocked in lock() gets the
\* mutex if it is freed again and again
TonemapFairness ==
    \A t \in Threads :
        LET rest == <<storeVars, configVars, futureVars, agVars, emitted, last, crashed,
                      regVars, cpVars, frVars>>
        IN  /\ WF_vars((OperatorReturns(t) \/ OperatorThrows(t) \/ Unlock(t) \/ CatchUnlock(t))
                            /\ UNCHANGED rest)
            /\ SF_vars(Lock(t) /\ UNCHANGED rest)

SpecTonemapFair == SpecTonemap /\ TonemapFairness

----------------------------------------------------------------------------
(* C34 *)

\* the threads inside the operator function of a kind
InOperator(kind) == {t \in Threads : tmPc[t] = "operator" /\ tmKind[t] = kind}

\* C34: at most one thread at a time is inside the operator function of
\* mantiuk06, of durand and of reinhard02, and a thread that waits in lock()
\* waits for a thread that runs an operator of its own kind.
C34_OneThreadPerLockedKind ==
    /\ \A kind \in LockedKinds : Cardinality(InOperator(kind)) <= 1
    /\ \A t \in Threads :
          (tmPc[t] = "lock" /\ ~ENABLED Lock(t))
            => \E u \in Threads \ {t} :
                  /\ tmKind[u] = tmKind[t]
                  /\ tmPc[u] \in {"operator", "unlock", "catch"}

\* one thread is inside pfstmo_mantiuk06 and another, which asked for the
\* same kind, is held in lock()
C34_Witness ==
    \E t, u \in Threads :
        /\ tmPc[t] = "operator" /\ tmKind[t] = "mantiuk06"
        /\ tmPc[u] = "lock" /\ tmKind[u] = "mantiuk06"
        /\ ~ENABLED Lock(u)

----------------------------------------------------------------------------
(* C35 *)

----------------------------------------------------------------------------
(* TonemapOperator: the registry and getTonemapOperator *)

\* every class deriving from the register of one and the same key
KeyOfFirstClass(class) == "mantiuk06"

\* the Key of the TonemapOperatorRegister a concrete class derives from:
\* getType() of an object of the class returns it
BaseKey(class) ==
    CASE class = "TonemapOperatorMantiuk06"   -> "mantiuk06"
      [] class = "TonemapOperatorMantiuk08"   -> "mantiuk08"
      [] class = "TonemapOperatorFattal02"    -> "fattal"
      [] class = "TonemapOperatorFerradans11" -> "ferradans"
      [] class = "TonemapOperatorMai11"       -> "mai"
      [] class = "TonemapOperatorDrago03"     -> "drago"
      [] class = "TonemapOperatorDurand02"    -> "durand"
      [] class = "TonemapOperatorReinhard02"  -> "reinhard02"
      [] class = "TonemapOperatorReinhard05"  -> "reinhard05"
      [] class = "TonemapOperatorAshikhmin02" -> "ashikhmin"
      [] class = "TonemapOperatorPattanaik00" -> "pattanaik"

\* the entries of map_list_of in registry(): the key, and the class whose
\* create() is stored under it
RegistryEntries ==
    {<<"mantiuk06", "TonemapOperatorMantiuk06">>,
     <<"mantiuk08", "TonemapOperatorMantiuk08">>,
     <<"fattal", "TonemapOperatorFattal02">>,
     <<"ferradans", "TonemapOperatorFerradans11">>,
     <<"mai", "TonemapOperatorMai11">>,
     <<"drago", "TonemapOperatorDrago03">>,
     <<"durand", "TonemapOperatorDurand02">>,
     <<"reinhard02", "TonemapOperatorReinhard02">>,
     <<"reinhard05", "TonemapOperatorReinhard05">>,
     <<"ashikhmin", "TonemapOperatorAshikhmin02">>,
     <<"pattanaik", "TonemapOperatorPattanaik00">>}

\* the kinds registered; a caller asks for one of them or for a value of the
\* enumeration type that is none of them ("unknown")
RegisteredKinds == {e[1] : e \in RegistryEntries}

\* registry(): the static map is built by the first call and returned as it
\* is by every later one
registry == IF tmRegistry = {} THEN RegistryEntries ELSE tmRegistry

\* TonemapOperatorRegister<Key, ConcreteClass>::create(): new ConcreteClass()
create(class) == [class |-> class, type |-> BaseKey(class)]

\* getTonemapOperator(tmo)
GetTonemapOperator(tmo) ==
    LET reg == registry
        found == {e \in reg : e[1] = tmo}
    IN  /\ tmRegistry' = reg
        /\ IF found # {}
           THEN /\ Len(tmHeap) < MaxOperators
                /\ tmHeap' = Append(tmHeap, create((CHOOSE e \in found : TRUE)[2]))
                /\ tmGet' = [tmo |-> tmo, outcome |-> "returned",
                             object |-> Len(tmHeap) + 1, before |-> Len(tmHeap)]
           ELSE /\ tmHeap' = tmHeap
                /\ tmGet' = [tmo |-> tmo, outcome |-> "Invalid TMOperator",
                             object |-> 0, before |-> Len(tmHeap)]

NextRegistry ==
    /\ UNCHANGED <<storeVars, configVars, futureVars, agVars, emitted, last, crashed, tmVars, cpVars, frVars>>
    /\ \E tmo \in RegisteredKinds \cup {"unknown"} : GetTonemapOperator(tmo)

SpecRegistry == Init /\ [][NextRegistry]_vars

----------------------------------------------------------------------------
(* C36 *)

\* C36: getTonemapOperator(tmo) returns for each of the eleven registered
\* kinds an operator that did not exist before and whose getType() is tmo;
\* for another kind it creates nothing and throws "Invalid TMOperator"; the
\* registry holds the same eleven entries after every call.
C36_RegistryCreatesAskedKind ==
    (tmGet.tmo # "none") =>
        /\ Cardinality(RegisteredKinds) = 11
        /\ tmRegistry = RegistryEntries
        /\ IF tmGet.tmo \in RegisteredKinds
           THEN /\ tmGet.outcome = "returned"
                /\ tmGet.object \in DOMAIN tmHeap
                /\ tmGet.object > tmGet.before
                /\ tmHeap[tmGet.object].type = tmGet.tmo
           ELSE /\ tmGet.outcome = "Invalid TMOperator"
                /\ Len(tmHeap) = tmGet.before

\* a second operator of kind durand was asked for and is a second object
C36_Witness ==
    /\ tmGet.tmo = "durand"
    /\ tmGet.outcome = "returned"
    /\ tmGet.object = 2
    /\ tmHeap[1].type = "durand"
    /\ tmHeap[2].type = "durand"

----------------------------------------------------------------------------
(* array2d: copyArray(from, to, x_ul, y_ul, x_br, y_br) *)

\* the calls: arrays of 1..MaxDim columns and rows, corners in and around them
CopyCalls ==
    [IN_W : 1..MaxDim, IN_H : 1..MaxDim, OUT_W : 1..MaxDim, OUT_H : 1..MaxDim,
     x_ul : -1..MaxDim, y_ul : -1..MaxDim, x_br : 0..(MaxDim + 1), y_br : 0..(MaxDim + 1)]

\* the six assert() lines: the first is written twice, no line looks at OUT_W
CopyAssertions(a) ==
    /\ a.OUT_H <= a.IN_H
    /\ a.OUT_H <= a.IN_H
    /\ a.x_ul >= 0
    /\ a.y_ul >= 0
    /\ a.x_br <= a.IN_W
    /\ a.y_br <= a.IN_H

\* the element of the raw data of from that is read for to(r, c):
\* fv = &fv[IN_W*y_ul + x_ul], then fv[r*IN_W + c]
CopyReadIndex(a, r, c) == (a.IN_W * a.y_ul + a.x_ul) + (r * a.IN_W + c)

\* the read is inside the raw data of from
CopyReadInside(a, r, c) ==
    CopyReadIndex(a, r, c) >= 0 /\ CopyReadIndex(a, r, c) < a.IN_W * a.IN_H

\* the elements of to, by row and column
CopyCells(a) == (0..(a.OUT_H - 1)) \X (0..(a.OUT_W - 1))

\* what a read outside the raw data yields where it does not fault
Garbage == -1

\* to after the loops, as the sequence of its rows. from holds at
\* (row, col) the value row*IN_W + col, its own position in the raw data
CopiedArray(a) ==
    [r \in 1..a.OUT_H |->
        [c \in 1..a.OUT_W |->
            IF CopyReadInside(a, r - 1, c - 1) THEN CopyReadIndex(a, r - 1, c - 1)
            ELSE Garbage]]

\* the region copy. assert() stops a debug build where an assertion fails and
\* is no statement in a release build; a read outside the raw data is
\* undefined: it faults or yields whatever is there
CopyArrayRegion ==
    /\ cpResult = NoResult
    /\ cpArgs # NoCopy
    /\ \E build \in {"debug", "release"}, faults \in BOOLEAN :
          LET asserted == CopyAssertions(cpArgs)
              outside  == \E rc \in CopyCells(cpArgs) :
                              ~CopyReadInside(cpArgs, rc[1], rc[2])
          IN  /\ faults => outside
              /\ cpResult' =
                    IF ~asserted /\ build = "debug"
                    THEN [asserted |-> asserted, outcome |-> "aborted", to |-> <<>>]
                    ELSE IF faults
                    THEN [asserted |-> asserted, outcome |-> "fault", to |-> <<>>]
                    ELSE [asserted |-> asserted, outcome |-> "copied",
                          to |-> CopiedArray(cpArgs)]
    /\ UNCHANGED cpArgs

\* one region copy, for every call
InitCopy ==
    /\ InitManager
    /\ InitTonemap
    /\ InitRegistry
    /\ InitFrame
    /\ cpArgs \in CopyCalls
    /\ cpResult = NoResult

NextCopy ==
    /\ UNCHANGED <<storeVars, configVars, futureVars, agVars, emitted, last, crashed, tmVars, regVars, frVars>>
    /\ CopyArrayRegion

SpecCopy == InitCopy /\ [][NextCopy]_vars

----------------------------------------------------------------------------
(* C37 *)

\* the corners name a region: the upper left one is not past the other
CopyProperRegion(a) == a.x_ul <= a.x_br /\ a.y_ul <= a.y_br

\* C37: a region copyArray call that satisfies the assertions of the function
\* (and whose corners name a region) reads, for every to(r, c), the element of
\* from at row y_ul + r and column x_ul + c, which lies inside from, and
\* to(r, c) holds that element after it.
C37_RegionCopyStaysInside ==
    (cpResult.outcome # "none" /\ cpResult.asserted /\ CopyProperRegion(cpArgs)) =>
        /\ cpResult.outcome = "copied"
        /\ \A rc \in CopyCells(cpArgs) :
              /\ cpArgs.y_ul + rc[1] < cpArgs.IN_H
              /\ cpArgs.x_ul + rc[2] < cpArgs.IN_W
              /\ cpResult.to[rc[1] + 1][rc[2] + 1]
                    = (cpArgs.y_ul + rc[1]) * cpArgs.IN_W + (cpArgs.x_ul + rc[2])

----------------------------------------------------------------------------
(* Frame: the channels of a frame *)

ChannelNames == {"X", "Y", "Z", "ALPHA"}

\* a search that never finds a channel
FindNothing(channels, name) == 0

\* std::find_if(m_channels.begin(), m_channels.end(), FindChannel(name)): the
\* position of the first channel whose name compares equal, 0 for end()
FindChannel(channels, name) ==
    LET hits == {i \in DOMAIN channels : channels[i].name = name}
    IN  IF hits = {} THEN 0 ELSE CHOOSE i \in hits : \A j \in hits : i <= j

\* the pointer getChannel(name) returns on the channels given: 0 for NULL
getChannel(channels, name) ==
    IF FindChannel(channels, name) = 0 THEN 0
    ELSE channels[FindChannel(channels, name)].id

\* m_channels after createChannel(name) where next is the channel a new
\* allocation yields
createChannel(channels, name, next) ==
    IF FindChannel(channels, name) # 0 THEN channels
    ELSE Append(channels, [name |-> name, id |-> next])

\* the number of allocations createChannel(name) makes
Allocations(channels, name) == IF FindChannel(channels, name) # 0 THEN 0 ELSE 1

\* the three pointers of getXYZChannels on the channels given
getXYZChannels(channels) ==
    IF FindChannel(channels, "X") = 0 THEN <<0, 0, 0>>
    ELSE IF FindChannel(channels, "Y") = 0 THEN <<0, 0, 0>>
    ELSE IF FindChannel(channels, "Z") = 0 THEN <<0, 0, 0>>
    ELSE <<channels[FindChannel(channels, "X")].id,
           channels[FindChannel(channels, "Y")].id,
           channels[FindChannel(channels, "Z")].id>>

FrameOp(op, name, result) ==
    [op |-> op, name |-> name, result |-> result, before |-> frChannels]

\* Frame::createChannel(name)
CreateChannel(name) ==
    /\ frNextId + Allocations(frChannels, name) <= MaxChannelIds
    /\ frChannels' = createChannel(frChannels, name, frNextId + 1)
    /\ frNextId' = frNextId + Allocations(frChannels, name)
    /\ frLive' = frLive \cup {name}
    /\ frLast' = FrameOp("createChannel", name, <<getChannel(frChannels', name)>>)

\* Frame::removeChannel(name)
RemoveChannel(name) ==
    LET it == FindChannel(frChannels, name) IN
    /\ frChannels' = IF it # 0 THEN RemoveAt(frChannels, it) ELSE frChannels
    /\ frLive' = frLive \ {name}
    /\ frLast' = FrameOp("removeChannel", name, <<>>)
    /\ UNCHANGED frNextId

\* Frame::createXYZChannels(X, Y, Z): three createChannel calls
CreateXYZChannels ==
    LET nX == Allocations(frChannels, "X")
        cX == createChannel(frChannels, "X", frNextId + 1)
        nY == Allocations(cX, "Y")
        cY == createChannel(cX, "Y", frNextId + nX + 1)
        nZ == Allocations(cY, "Z")
        cZ == createChannel(cY, "Z", frNextId + nX + nY + 1)
    IN  /\ frNextId + nX + nY + nZ <= MaxChannelIds
        /\ frChannels' = cZ
        /\ frNextId' = frNextId + nX + nY + nZ
        /\ frLive' = frLive \cup {"X", "Y", "Z"}
        /\ frLast' = FrameOp("createXYZChannels", "",
                             <<getChannel(cZ, "X"), getChannel(cZ, "Y"), getChannel(cZ, "Z")>>)

\* Frame::getChannel(name)
GetChannel(name) ==
    /\ frLast' = FrameOp("getChannel", name, <<getChannel(frChannels, name)>>)
    /\ UNCHANGED <<frChannels, frNextId, frLive>>

\* Frame::getXYZChannels(X, Y, Z)
GetXYZChannels ==
    /\ frLast' = FrameOp("getXYZChannels", "", getXYZChannels(frChannels))
    /\ UNCHANGED <<frChannels, frNextId, frLive>>

NextFrame ==
    /\ UNCHANGED <<storeVars, configVars, futureVars, agVars, emitted, last, crashed, tmVars, regVars, cpVars>>
    /\ \/ \E name \in ChannelNames : CreateChannel(name)
       \/ \E name \in ChannelNames : RemoveChannel(name)
       \/ CreateXYZChannels
       \/ \E name \in ChannelNames : GetChannel(name)
       \/ GetXYZChannels

SpecFrame == Init /\ [][NextFrame]_vars

----------------------------------------------------------------------------
(* C38 *)

\* the names and the pointers of a channel container
NamesOf(channels) == {channels[i].name : i \in DOMAIN channels}
IdsOf(channels) == {channels[i].id : i \in DOMAIN channels}

\* C38: after any sequence of createChannel, removeChannel and
\* createXYZChannels no two channels of the frame have one name;
\* createChannel(name) returns the channel of that name where there was one
\* and adds exactly one where there was none; getChannel(name) is non-null
\* exactly for the names created and not removed since; removeChannel of an
\* absent name changes nothing; getXYZChannels yields three channels or
\* three NULLs.
C38_ChannelNamesUnique ==
    /\ \A i, j \in DOMAIN frChannels :
          frChannels[i].name = frChannels[j].name => i = j
    /\ \A name \in ChannelNames :
          (getChannel(frChannels, name) # 0) <=> (name \in frLive)
    /\ frLast.op = "createChannel" =>
          IF frLast.name \in NamesOf(frLast.before)
          THEN /\ frChannels = frLast.before
               /\ frLast.result = <<getChannel(frLast.before, frLast.name)>>
          ELSE /\ Len(frChannels) = Len(frLast.before) + 1
               /\ SubSeq(frChannels, 1, Len(frLast.before)) = frLast.before
               /\ frChannels[Len(frChannels)].name = frLast.name
               /\ frLast.result = <<frChannels[Len(frChannels)].id>>
               /\ frLast.result[1] \notin IdsOf(frLast.before) \cup {0}
    /\ frLast.op = "getChannel" =>
          ((frLast.result[1] # 0) <=> (frLast.name \in frLive))
    /\ (frLast.op = "removeChannel" /\ frLast.name \notin NamesOf(frLast.before)) =>
          frChannels = frLast.before
    /\ frLast.op = "getXYZChannels" =>
          \/ frLast.result = <<0, 0, 0>> /\ ~({"X", "Y", "Z"} \subseteq frLive)
          \/ /\ \A k \in 1..3 : frLast.result[k] # 0
             /\ {"X", "Y", "Z"} \subseteq frLive

\* createChannel("X") on a frame that has X already, after X had been
\* removed and created again: the channel is returned, none is added
C38_Witness ==
    /\ frLast.op = "createChannel"
    /\ frLast.name = "X"
    /\ "X" \in NamesOf(frLast.before)
    /\ frLast.result[1] >= 2
    /\ Len(frChannels) >= 2

====
